---- MODULE Spec2Model ----
(***************************************************************************)
(* WinBoat: compose port entries, the port negotiator (PortManager), the   *)
(* container runtime adapters, the installation state machine and the      *)
(* lifecycle orchestrator (Winboat), modelled from the TypeScript sources. *)
(*                                                                         *)
(* JavaScript strings are sequences of one-character strings, so that      *)
(* split / indexOf / substring / parseInt are computed as the code does.   *)
(***************************************************************************)
EXTENDS Integers, Sequences, FiniteSets, TLC

VARIABLES
    \* ---- ComposePortEntry (port.ts, first class) ----
    pe_input,        \* the entry string handed to the constructor
    pe_first,        \* result of new ComposePortEntry(pe_input)
    pe_second,       \* result of new ComposePortEntry(first.entry)
    pe_pc,           \* "new" | "parsed" | "reparsed"
    \* ---- PortManager.parseCompose (port.ts, second class) ----
    compose_ports,   \* compose.services.windows.ports, a list of entry strings
    findOpenPorts,   \* options.findOpenPorts
    taken,           \* host ports in use: a set of intervals <<lo, hi>>
    bindDenied,      \* this process may not bind the privileged ports (EACCES)
    portConfig,      \* last result of getPortConfigurationFromCompose()
    pm_ports,        \* PortManager.ports, the Map in insertion order
    pm_i,            \* index of the next entry of the for-of loop
    pm_pc,           \* "loop" | "rdp" | "done" | "formatted" | "failed"
    rdpHostPort,     \* the local rdpHostPort of parseCompose
    pm_error,        \* "none" or the error parseCompose rejected with
    pm_calls,        \* history: one record per setPortMapping call
    pm_out,          \* the last value returned by composeFormat
    \* ---- InstallManager (install.ts) ----
    in_pc,           \* where install() is
    in_state,        \* InstallManager.state
    in_log,          \* history: the stateChanged notifications, in order
    in_polls,        \* preinstall status requests issued
    in_sleeps,       \* 500 ms inter-poll sleeps executed
    in_attempts,     \* health attempts that did not return 200
    in_last,         \* what the latest request of the run did
    in_timers,       \* sleeps started by monitorAPIHealth that have not elapsed
    in_done,         \* the stages of the run that have completed without throwing
    composeWritten,  \* container.writeCompose was called
    composeUp,       \* container.compose("up") was invoked
    \* ---- Winboat orchestrator and its container adapter ----
    runtime,         \* config.containerRuntime: "Docker" | "Podman"
    guestUp,         \* the container is actually running
    containerStatus, \* Winboat.containerStatus, the last observed status
    tk,              \* status-tick handlers in flight, per suspension point
    healthInterval,  \* #healthInterval is non-null
    metricsInterval, \* #metricsInverval is non-null
    rdpInterval,     \* #rdpConnectionStatusInterval is non-null
    qmpInterval,     \* #qmpInterval is non-null
    isOnline,        \* Winboat.isOnline
    rdpConnected,    \* Winboat.rdpConnected
    isUpdatingGuestServer,
    qmpMgr,          \* Winboat.qmpMgr: null or "open"
    cachedPortMappings, \* the adapter's cached table, null before port()
    pending,         \* poller callbacks in flight, per suspension point
    settled,         \* history: how the latest poller request ended
    refreshed,       \* history: port() completed in the present Running period
    \* ---- the compose file and its backups ----
    fs_compose,      \* the file at composeFilePath
    fs_backup,       \* the files of the backup directory, by name
    backupDirExists, \* the backup directory exists
    rc_pc,           \* where replaceCompose / writeCompose is
    rc_kind,         \* "replace" | "write" | a container action: what was called
    rc_new,          \* the specification being written
    rc_prev,         \* history: the file found when the call set to work
    rc_calls,        \* calls made so far
    clock,           \* Date.now()
    containerActionLoading, \* Winboat.containerActionLoading
    \* ---- capability probes (_getSpecs) ----
    gs_pc,           \* the probe _getSpecs is about to run, or how it ended
    gs_specs,        \* the local `specs`: capability flag -> boolean
    gs_out,          \* history: probe -> what its command did
    \* ---- ComposePortMapper (utils/port.ts) ----
    mp_ports,        \* compose.services.windows.ports given to the constructor
    mp_shortPorts,   \* ComposePortMapper.shortPorts
    mp_guestPort,    \* the guestPort argument of the lookups
    mp_protocol,     \* the protocol argument of the lookups
    mp_has,          \* what hasShortPortMapping returned
    mp_get,          \* what getShortPortMapping returned
    mp_pc,           \* "new" | "built" | "asked" | "got"
    \* ---- the volume list of the default compose (createComposeFile) ----
    vol_default,     \* defaultCompose.services.windows.volumes of the adapter
    vol_written,     \* services.windows.volumes of the compose file last written
    vol_conf,        \* the InstallConfiguration of the latest createComposeFile
    vol_runs         \* executions of createComposeFile so far

entryVars == <<pe_input, pe_first, pe_second, pe_pc>>
portVars == <<compose_ports, findOpenPorts, taken, bindDenied, portConfig, pm_ports, pm_i, pm_pc,
              rdpHostPort, pm_error, pm_calls, pm_out>>
installVars == <<in_pc, in_state, in_log, in_polls, in_sleeps, in_attempts, in_last,
                 in_timers, in_done,
                 composeWritten, composeUp>>
timerVars == <<healthInterval, metricsInterval, rdpInterval, qmpInterval>>
flagVars == <<isOnline, rdpConnected, isUpdatingGuestServer>>
orchVars == <<runtime, guestUp, containerStatus, tk, timerVars, flagVars, qmpMgr,
              cachedPortMappings, pending, settled, refreshed>>
fileVars == <<fs_compose, fs_backup, backupDirExists, rc_pc, rc_kind, rc_new,
              rc_prev, rc_calls, clock, containerActionLoading>>
probeVars == <<gs_pc, gs_specs, gs_out>>
mapperVars == <<mp_ports, mp_shortPorts, mp_guestPort, mp_protocol, mp_has, mp_get,
                mp_pc>>
volumeVars == <<vol_default, vol_written, vol_conf, vol_runs>>
vars == <<entryVars, portVars, installVars, orchVars, fileVars, probeVars,
          mapperVars, volumeVars>>

notEntryVars == <<portVars, installVars, orchVars, fileVars, probeVars, mapperVars,
    volumeVars>>
notPortVars == <<entryVars, installVars, orchVars, fileVars, probeVars, mapperVars,
    volumeVars>>
notInstallVars == <<entryVars, orchVars, fileVars, probeVars, mapperVars,
    volumeVars>>
notOrchVars == <<entryVars, portVars, installVars, fileVars, probeVars, mapperVars,
    volumeVars>>
notFileVars == <<entryVars, portVars, installVars, orchVars, probeVars, mapperVars,
    volumeVars>>
notProbeVars == <<entryVars, portVars, installVars, orchVars, fileVars, mapperVars,
    volumeVars>>
notMapperVars == <<entryVars, portVars, installVars, orchVars, fileVars, probeVars,
    volumeVars>>
notVolumeVars == <<entryVars, portVars, installVars, orchVars, fileVars, probeVars,
    mapperVars>>

(***************************************************************************)
(* JavaScript string and number primitives                                 *)
(***************************************************************************)

\* Number.NaN, the result of parseInt on a token that has no leading digit.
NaN == -1

Digits == <<"0", "1", "2", "3", "4", "5", "6", "7", "8", "9">>

IsDigit(c) == \E i \in 1..10 : Digits[i] = c

DigitVal(c) == (CHOOSE i \in 1..10 : Digits[i] = c) - 1

HexLetters == {"a", "b", "c", "d", "e", "f", "A", "B", "C", "D", "E", "F"}

IsHex(c) == IsDigit(c) \/ c \in HexLetters

RECURSIVE DecimalValue(_)
DecimalValue(s) ==
    IF s = <<>> THEN 0
    ELSE 10 * DecimalValue(SubSeq(s, 1, Len(s) - 1)) + DigitVal(s[Len(s)])

\* Length of the longest prefix of s made of decimal digits.
DigitPrefixLen(s) ==
    CHOOSE k \in 0..Len(s) :
        /\ \A i \in 1..k : IsDigit(s[i])
        /\ (k < Len(s) => ~IsDigit(s[k + 1]))

\* parseInt(s): the value of the leading digits, NaN when there are none.
ParseInt(s) ==
    IF DigitPrefixLen(s) = 0 THEN NaN
    ELSE DecimalValue(SubSeq(s, 1, DigitPrefixLen(s)))

\* `${n}` for a number n.
RECURSIVE NumberToString(_)
NumberToString(n) ==
    IF n = NaN THEN <<"N", "a", "N">>
    ELSE IF n < 10 THEN <<Digits[n + 1]>>
    ELSE NumberToString(n \div 10) \o <<Digits[(n % 10) + 1]>>

\* s.indexOf(needle): 0-based position of the first occurrence, -1 if none.
IndexOf(s, needle) ==
    LET hits == {i \in 0..(Len(s) - Len(needle)) :
                    SubSeq(s, i + 1, i + Len(needle)) = needle}
    IN IF hits = {} THEN 0 - 1
       ELSE CHOOSE i \in hits : \A j \in hits : i <= j

Includes(s, needle) == IndexOf(s, needle) >= 0

Clamp(n, lo, hi) == IF n < lo THEN lo ELSE IF n > hi THEN hi ELSE n

\* s.substring(a, b): arguments clamped to 0..length and swapped if a > b.
Substring(s, a, b) ==
    LET ca == Clamp(a, 0, Len(s))
        cb == Clamp(b, 0, Len(s))
        lo == IF ca <= cb THEN ca ELSE cb
        hi == IF ca <= cb THEN cb ELSE ca
    IN SubSeq(s, lo + 1, hi)

\* s.split(sep) for a one-character separator.
RECURSIVE Split(_, _)
Split(s, sep) ==
    LET i == IndexOf(s, <<sep>>)
    IN IF i < 0 THEN <<s>>
       ELSE <<SubSeq(s, 1, i)>> \o Split(SubSeq(s, i + 2, Len(s)), sep)

\* array.at(-k)
AtEnd(a, k) == a[Len(a) - k + 1]

\* node:net isIPv4: four dot-separated decimal octets 0..255, no leading zero.
IsOctet(t) ==
    /\ Len(t) \in 1..3
    /\ \A i \in 1..Len(t) : IsDigit(t[i])
    /\ (Len(t) > 1 => t[1] # "0")
    /\ DecimalValue(t) <= 255

isIPv4(s) ==
    LET parts == Split(s, ".")
    IN Len(parts) = 4 /\ \A i \in 1..4 : IsOctet(parts[i])

IsHexGroup(t) == Len(t) \in 1..4 /\ \A i \in 1..Len(t) : IsHex(t[i])

GroupsOf(s) == IF s = <<>> THEN <<>> ELSE Split(s, ":")

\* node:net isIPv6 (without zone ids and embedded IPv4 tails): eight groups
\* of 1..4 hex digits, or fewer with exactly one "::" compression.
isIPv6(s) ==
    LET dbl == IndexOf(s, <<":", ":">>)
    IN IF dbl < 0
       THEN LET g == Split(s, ":")
            IN Len(g) = 8 /\ \A i \in 1..8 : IsHexGroup(g[i])
       ELSE LET l == GroupsOf(Substring(s, 0, dbl))
                r == GroupsOf(Substring(s, dbl + 2, Len(s)))
            IN /\ \A i \in 1..Len(l) : IsHexGroup(l[i])
               /\ \A i \in 1..Len(r) : IsHexGroup(r[i])
               /\ Len(l) + Len(r) <= 7

(***************************************************************************)
(* Range and ComposePortEntry (short syntax parser)                        *)
(***************************************************************************)

\* A `Port | Range` value: a plain port n is held as start = end = n.
PortValue(n) == [range |-> FALSE, start |-> n, end |-> n]

\* new Range(token): parseInt of the two sides of the first "-".
RangeFromToken(token) ==
    LET splitToken == Split(token, "-")
    IN [range |-> TRUE, start |-> ParseInt(splitToken[1]), end |-> ParseInt(splitToken[2])]

\* Range.toString() / `${port}`
PortToString(v) ==
    IF v.range THEN NumberToString(v.start) \o <<"-">> \o NumberToString(v.end)
    ELSE NumberToString(v.start)

parsePortOrRange(token) ==
    IF Includes(token, <<"-">>) THEN RangeFromToken(token) ELSE PortValue(ParseInt(token))

\* parsePort(type, entry); type is "Host" or "Container".
parsePort(type, entry) ==
    LET portEntry == Split(entry, ":")
        guest == Split(AtEnd(portEntry, 1), "/")[1]
    IN IF Len(portEntry) = 1 THEN parsePortOrRange(guest)
       ELSE IF type = "Host" THEN parsePortOrRange(AtEnd(portEntry, 2))
       ELSE parsePortOrRange(guest)

TCP == <<"t", "c", "p">>
UDP == <<"u", "d", "p">>

\* parseProtocol(entry): [err, value]; a missing or empty suffix is tcp.
parseProtocol(entry) ==
    LET parts == Split(entry, "/")
        protocol == IF Len(parts) >= 2 THEN parts[2] ELSE <<>>
    IN IF protocol = <<>> THEN [err |-> FALSE, value |-> TCP]
       ELSE IF protocol = TCP \/ protocol = UDP THEN [err |-> FALSE, value |-> protocol]
       ELSE [err |-> TRUE, value |-> protocol]

DefaultHostIP == <<"0", ".", "0", ".", "0", ".", "0">>

\* checkValidIP(ip, entry): throws unless ip is IPv4 or IPv6.
checkValidIP(ip) ==
    IF ~isIPv4(ip) /\ ~isIPv6(ip) THEN [err |-> TRUE, value |-> ip]
    ELSE [err |-> FALSE, value |-> ip]

\* parseIP(entry): the host token is located with indexOf on the whole entry.
parseIP(entry) ==
    LET parts == Split(entry, ":")
    IN IF Len(parts) < 3 THEN [err |-> FALSE, value |-> DefaultHostIP]
       ELSE LET emptyHost == Len(AtEnd(parts, 2)) = 0
                lastPort == IF emptyHost THEN AtEnd(parts, 1) ELSE AtEnd(parts, 2)
                colonNum == IF emptyHost THEN 2 ELSE 1
                hostPortLocation == IndexOf(entry, lastPort) - colonNum
                rawIP == Substring(entry, 0, hostPortLocation)
            IN IF rawIP = <<>> \/ rawIP[1] # "[" THEN checkValidIP(rawIP)
               ELSE checkValidIP(Substring(rawIP, 1, Len(rawIP) - 1))

NoEntry(why) ==
    [err |-> why, hostIP |-> <<>>, host |-> PortValue(NaN),
     container |-> PortValue(NaN), protocol |-> <<>>]

\* new ComposePortEntry(entry: string): fields are parsed in the order
\* hostIP, host, container, protocol; the first throw aborts construction.
NewComposePortEntry(entry) ==
    LET ip == parseIP(entry)
        proto == parseProtocol(entry)
    IN IF ip.err THEN NoEntry("InvalidIP")
       ELSE IF proto.err THEN NoEntry("Protocol")
       ELSE [err |-> "none", hostIP |-> ip.value,
             host |-> parsePort("Host", entry),
             container |-> parsePort("Container", entry),
             protocol |-> proto.value]

\* get entry(): `${hostIP}:${host}:${container}/${protocol}`
EntryString(e) ==
    e.hostIP \o <<":">> \o PortToString(e.host) \o <<":">>
        \o PortToString(e.container) \o <<"/">> \o e.protocol

(***************************************************************************)
(* Constructing an entry and constructing it again from its own `entry`    *)
(***************************************************************************)

AddrTokens ==
    { <<"1", "2", "7", ".", "0", ".", "0", ".", "1">>,
      <<"1", "0", ".", "0", ".", "0", ".", "8", "0">>,
      <<"[", ":", ":", "1", "]">>,
      <<"h", "o", "s", "t">>,
      <<>> }

HostTokens ==
    { <<"0">>, <<"1">>, <<"8", "0">>, <<"8", "0", "8", "0">>, <<>>,
      <<"8", "0", "0", "0", "-", "8", "0", "1", "0">>, <<"9", "-", "1">>,
      <<"a", "b", "c">> }

ContainerTokens ==
    { <<"8", "0">>, <<"3", "3", "8", "9">>,
      <<"9", "0", "0", "0", "-", "9", "0", "1", "0">>, <<"x">> }

ProtocolSuffixes ==
    { <<>>, <<"/">> \o TCP, <<"/">> \o UDP, <<"/", "s", "c", "t", "p">> }

\* One-, two- and three-or-more-token entry strings.
EntryInputs ==
    { c \o p : c \in ContainerTokens, p \in ProtocolSuffixes }
    \cup { h \o <<":">> \o c \o p :
             h \in HostTokens, c \in ContainerTokens, p \in ProtocolSuffixes }
    \cup { a \o <<":">> \o h \o <<":">> \o c \o p :
             a \in AddrTokens, h \in HostTokens,
             c \in ContainerTokens, p \in ProtocolSuffixes }

EntryStart ==
    /\ pe_input \in EntryInputs
    /\ pe_first = NoEntry("unset")
    /\ pe_second = NoEntry("unset")
    /\ pe_pc = "new"

\* No entry is being constructed.
EntryIdle ==
    /\ pe_input = <<>>
    /\ pe_first = NoEntry("unset")
    /\ pe_second = NoEntry("unset")
    /\ pe_pc = "idle"

\* e = new ComposePortEntry(s)
Construct ==
    /\ pe_pc = "new"
    /\ pe_first' = NewComposePortEntry(pe_input)
    /\ pe_pc' = "parsed"
    /\ UNCHANGED <<pe_input, pe_second, notEntryVars>>

\* new ComposePortEntry(e.entry), for an e that was constructed
Reconstruct ==
    /\ pe_pc = "parsed"
    /\ pe_first.err = "none"
    /\ pe_second' = NewComposePortEntry(EntryString(pe_first))
    /\ pe_pc' = "reparsed"
    /\ UNCHANGED <<pe_input, pe_first, notEntryVars>>

(***************************************************************************)
(* Constants of lib/constants.ts                                           *)
(***************************************************************************)

GUEST_RDP_PORT == 3389
GUEST_NOVNC_PORT == 8006
GUEST_API_PORT == 7148
GUEST_QMP_PORT == 7149
PORT_MAX == 65535
PORT_SEARCH_RANGE == 100
PORT_SPACING == 1000

(***************************************************************************)
(* PortManager and its ComposePortEntry (`host:guest[/protocol]`)          *)
(***************************************************************************)

Abs(n) == IF n < 0 THEN 0 - n ELSE n

\* static parseProtocol of the PortManager's entry: tcp, udp or undefined,
\* undefined being the empty string here.
pmParseProtocol(entry) ==
    LET parts == Split(entry, "/")
        protocol == IF Len(parts) >= 2 THEN parts[2] ELSE <<>>
    IN IF protocol = TCP \/ protocol = UDP THEN protocol ELSE <<>>

\* new ComposePortEntry(entry) of the PortManager: the first two
\* colon-separated tokens, each cut at "/", are the host and the guest port.
NewPortEntry(entry) ==
    LET raw == Split(entry, ":")
        portEntry == [k \in 1..Len(raw) |-> Split(raw[k], "/")[1]]
    IN [hostPort |-> ParseInt(portEntry[1]),
        guestPort |-> IF Len(portEntry) >= 2 THEN ParseInt(portEntry[2]) ELSE NaN,
        protocol |-> pmParseProtocol(entry)]

\* ComposePortEntry.fromPorts: formats a string and parses it again.
fromPorts(hostPort, guestPort, protocol) ==
    LET protocolString == IF protocol # <<>> THEN <<"/">> \o protocol ELSE <<>>
    IN NewPortEntry(NumberToString(hostPort) \o <<":">>
                        \o NumberToString(guestPort) \o protocolString)

\* get entry() of the PortManager's entry
PortEntryString(e) ==
    LET delimeter == IF e.protocol # <<>> THEN <<"/">> ELSE <<>>
    IN NumberToString(e.hostPort) \o <<":">> \o NumberToString(e.guestPort)
           \o delimeter \o e.protocol

\* PortManager.getPortDistance; a comparison with NaN is false.
getPortDistance(port1, port2) == Abs(port1 - port2)

TooClose(port1, port2) ==
    /\ port1 # NaN
    /\ port2 # NaN
    /\ getPortDistance(port1, port2) <= PORT_SEARCH_RANGE

IsTaken(port) == \E iv \in taken : iv[1] <= port /\ port <= iv[2]

\* listen(port) fails with an error other than EADDRINUSE: EACCES, for a
\* port below 1024 that the process may not bind.
BindRefused(port) == bindDenied /\ port < 1024

\* PortManager.isPortOpen: "open" when listen succeeds, "inuse" on
\* EADDRINUSE; listen throws on a port above 65535 ("badport"); on any
\* other error event the handler does nothing and the promise is never
\* settled ("unsettled").
isPortOpen(port) ==
    IF port > PORT_MAX THEN "badport"
    ELSE IF BindRefused(port) THEN "unsettled"
    ELSE IF IsTaken(port) THEN "inuse"
    ELSE "open"

\* The first port >= from that is not taken: from itself, or the port after
\* the end of a taken interval (what the loop of probes arrives at).
FirstFreeFrom(from) ==
    LET cands == {from} \cup {iv[2] + 1 : iv \in taken}
        free == {c \in cands : c >= from /\ ~IsTaken(c)}
    IN CHOOSE c \in free : \A d \in free : c <= d

\* PortManager.getOpenPortInRange(minPort, maxPort):
\*   for (i = 0; i <= maxPort; i++) probe minPort + i
\* so the last port probed is minPort + maxPort. Result: [kind, port] with
\* kind "found", "undefined" (loop ran out), "badport" (a probe threw) or
\* "unsettled" (a probe never settled; the refused ports are the lowest, so
\* that is the first probe if any).
getOpenPortInRange(minPort, maxPort) ==
    LET f == FirstFreeFrom(minPort)
    IN IF isPortOpen(minPort) = "unsettled" THEN [kind |-> "unsettled", port |-> 0]
       ELSE IF f <= minPort + maxPort /\ f <= PORT_MAX THEN [kind |-> "found", port |-> f]
       ELSE IF minPort + maxPort > PORT_MAX THEN [kind |-> "badport", port |-> 0]
       ELSE [kind |-> "undefined", port |-> 0]

\* Map.get / Map.has / Map.set on the insertion-ordered list of entries
MapHas(ports, guestPort) == \E k \in 1..Len(ports) : ports[k].guestPort = guestPort

MapGet(ports, guestPort) ==
    ports[CHOOSE k \in 1..Len(ports) : ports[k].guestPort = guestPort]

MapSet(ports, guestPort, e) ==
    IF MapHas(ports, guestPort)
    THEN [k \in 1..Len(ports) |-> IF ports[k].guestPort = guestPort THEN e ELSE ports[k]]
    ELSE Append(ports, e)

\* PortManager.getHostPort: the mapped host port, else the guest port itself.
getHostPort(ports, guestPort) ==
    IF MapHas(ports, guestPort) THEN MapGet(ports, guestPort).hostPort ELSE guestPort

\* PortManager.setPortMapping(guestPort, hostPort, {findOpenPorts}):
\* [err, ports, call]; call records what was probed and what was stored.
\* err "Unsettled": the call is suspended for good on a probe.
setPortMapping(ports, guestPort, hostPort, find) ==
    LET probe == isPortOpen(hostPort)
        scan == getOpenPortInRange(hostPort + 1, hostPort + PORT_SEARCH_RANGE)
        call(stored, err) == [guestPort |-> guestPort, hostPort |-> hostPort,
                              probe |-> probe, find |-> find,
                              stored |-> stored, err |-> err]
        put(h) == MapSet(ports, guestPort, fromPorts(h, guestPort, <<>>))
    IN IF probe = "badport"
       THEN [err |-> "BadPort", ports |-> ports, call |-> call(0, "BadPort")]
       ELSE IF probe = "unsettled"
       THEN [err |-> "Unsettled", ports |-> ports, call |-> call(0, "Unsettled")]
       ELSE IF probe = "inuse" /\ find
       THEN CASE scan.kind = "badport" ->
                   [err |-> "BadPort", ports |-> ports, call |-> call(0, "BadPort")]
              [] scan.kind = "unsettled" ->
                   [err |-> "Unsettled", ports |-> ports, call |-> call(0, "Unsettled")]
              [] scan.kind = "undefined" ->
                   [err |-> "NoOpenPort", ports |-> ports, call |-> call(0, "NoOpenPort")]
              [] OTHER ->
                   [err |-> "none", ports |-> put(scan.port), call |-> call(scan.port, "none")]
       ELSE [err |-> "none", ports |-> put(hostPort), call |-> call(hostPort, "none")]

\* composeFormat without the tcp/udp pair: every entry is emitted once, as is.
RECURSIVE composeFormat_NoRdpPair(_)
composeFormat_NoRdpPair(ports) ==
    IF ports = <<>> THEN <<>>
    ELSE <<PortEntryString(Head(ports))>> \o composeFormat_NoRdpPair(Tail(ports))

\* get composeFormat(): one string per entry, two for the RDP entry, whose
\* protocol field is assigned "tcp" and then "udp".
RECURSIVE composeFormat(_)
composeFormat(ports) ==
    IF ports = <<>> THEN <<>>
    ELSE LET portEntry == Head(ports)
         IN (IF portEntry.guestPort # GUEST_RDP_PORT
             THEN <<PortEntryString(portEntry)>>
             ELSE <<PortEntryString([portEntry EXCEPT !.protocol = TCP]),
                    PortEntryString([portEntry EXCEPT !.protocol = UDP])>>)
            \o composeFormat(Tail(ports))

\* The entries as composeFormat leaves them: the RDP entry keeps "udp".
AfterComposeFormat(ports) ==
    [k \in 1..Len(ports) |->
        IF ports[k].guestPort = GUEST_RDP_PORT
        THEN [ports[k] EXCEPT !.protocol = UDP] ELSE ports[k]]

(***************************************************************************)
(* PortManager.parseCompose, one action per await                          *)
(***************************************************************************)

\* s.endsWith(needle)
EndsWith(s, needle) ==
    /\ Len(s) >= Len(needle)
    /\ SubSeq(s, Len(s) - Len(needle) + 1, Len(s)) = needle

\* ports.find(p => pred(p)): the first entry containing (or, atEnd, ending
\* with) needle; <<>> stands for undefined when there is none.
FindEntry(ports, needle, atEnd) ==
    LET hits == {k \in 1..Len(ports) :
                    IF atEnd THEN EndsWith(ports[k], needle)
                    ELSE Includes(ports[k], needle)}
    IN IF hits = {} THEN <<>>
       ELSE ports[CHOOSE k \in hits : \A j \in hits : k <= j]

\* parseInt(ports.find(...)?.split(':')[0] || fallback)
FirstTokenOr(ports, needle, atEnd, fallback) ==
    LET found == FindEntry(ports, needle, atEnd)
        token == IF found = <<>> THEN <<>> ELSE Split(found, ":")[1]
    IN ParseInt(IF token = <<>> THEN NumberToString(fallback) ELSE token)

\* portConfig before getPortConfigurationFromCompose() was called.
NotRead ==
    [kind |-> "unread", rdpPort |-> 0, vncWebPort |-> 0, guestApiPort |-> 0,
     qemuQmpPort |-> 0]

NullConfig ==
    [kind |-> "null", rdpPort |-> 0, vncWebPort |-> 0, guestApiPort |-> 0,
     qemuQmpPort |-> 0]

\* getPortConfigurationFromCompose() on a compose file whose port list is
\* ports: the first token of the 3389/tcp and of the 3389/udp entry are
\* compared with !== (NaN differs from NaN); the throw is caught and null
\* is returned.
getPortConfigurationFromCompose(ports) ==
    LET rdpTcpPort == FirstTokenOr(ports, <<":">> \o NumberToString(GUEST_RDP_PORT)
                                              \o <<"/">> \o TCP, FALSE, 3389)
        rdpUdpPort == FirstTokenOr(ports, <<":">> \o NumberToString(GUEST_RDP_PORT)
                                              \o <<"/">> \o UDP, FALSE, 3389)
    IN IF rdpTcpPort # rdpUdpPort \/ rdpTcpPort = NaN THEN NullConfig
       ELSE [kind |-> "config",
             rdpPort |-> rdpTcpPort,
             vncWebPort |-> FirstTokenOr(ports, <<":", "8", "0", "0", "6">>, TRUE, 8006),
             guestApiPort |-> FirstTokenOr(ports, <<":", "7", "1", "4", "8">>, TRUE, 7148),
             qemuQmpPort |-> FirstTokenOr(ports, <<":", "7", "1", "4", "9">>, TRUE, 7149)]

MaxEntries == 2
MaxTaken == 2

E_8006 == <<"8", "0", "0", "6", ":", "8", "0", "0", "6">>
E_7148 == <<"7", "1", "4", "8", ":", "7", "1", "4", "8">>
E_7149 == <<"7", "1", "4", "9", ":", "7", "1", "4", "9">>
E_RdpTcp == <<"3", "3", "8", "9", ":", "3", "3", "8", "9", "/", "t", "c", "p">>
E_RdpUdp == <<"3", "3", "8", "9", ":", "3", "3", "8", "9", "/", "u", "d", "p">>
E_3400 == <<"3", "4", "0", "0", ":", "8", "0", "0", "6">>
E_Rdp4000 == <<"4", "0", "0", "0", ":", "3", "3", "8", "9", "/", "u", "d", "p">>
E_High == <<"4", "0", "0", "0", "0", ":", "9", "0", "0", "0">>
E_53Udp == <<"5", "3", ":", "5", "3", "/", "u", "d", "p">>

\* The ports of the default compose file of the Docker runtime.
DefaultPorts == <<E_8006, E_7148, E_7149, E_RdpTcp, E_RdpUdp>>

EntryPool == {E_8006, E_RdpTcp, E_3400, E_Rdp4000, E_High, E_53Udp}

RECURSIVE ListsUpTo(_)
ListsUpTo(n) ==
    IF n = 0 THEN {<<>>}
    ELSE LET shorter == ListsUpTo(n - 1)
         IN shorter \cup {Append(l, e) : l \in {x \in shorter : Len(x) = n - 1}, e \in EntryPool}

\* A four-entry list: two services and the remote-desktop pair.
FourPorts == <<E_8006, E_7148, E_RdpTcp, E_RdpUdp>>

PortLists == ListsUpTo(MaxEntries) \cup {DefaultPorts, FourPorts}

\* Intervals of host ports that other processes may hold.
TakenIntervals ==
    { <<3389, 3389>>, <<8006, 8049>>, <<8006, 8106>>,
      <<3389, 6879>>, <<40000, 65535>> }

TakenSets == {t \in SUBSET TakenIntervals : Cardinality(t) <= MaxTaken}

PortStart ==
    /\ compose_ports \in PortLists
    /\ findOpenPorts \in BOOLEAN
    /\ taken \in TakenSets
    /\ bindDenied \in BOOLEAN
    /\ portConfig = NotRead
    /\ pm_ports = <<>>
    /\ pm_i = 1
    /\ pm_pc = "loop"
    /\ rdpHostPort = GUEST_RDP_PORT
    /\ pm_error = "none"
    /\ pm_calls = <<>>
    /\ pm_out = <<>>

\* No negotiation is running.
PortIdle ==
    /\ compose_ports = <<>>
    /\ findOpenPorts = TRUE
    /\ taken = {}
    /\ bindDenied = FALSE
    /\ portConfig = NotRead
    /\ pm_ports = <<>>
    /\ pm_i = 1
    /\ pm_pc = "idle"
    /\ rdpHostPort = GUEST_RDP_PORT
    /\ pm_error = "none"
    /\ pm_calls = <<>>
    /\ pm_out = <<>>

\* The shift applied to every entry, whatever the map holds.
SpacedHostPort_Always(ports, hostPort) == hostPort + PORT_SPACING

\* `portEntry.hostPort += PORT_SPACING` when an entry already in the map is
\* within PORT_SEARCH_RANGE of the entry's host port.
SpacedHostPort(ports, hostPort) ==
    IF \E k \in 1..Len(ports) : TooClose(ports[k].hostPort, hostPort)
    THEN (IF hostPort = NaN THEN NaN ELSE hostPort + PORT_SPACING)
    ELSE hostPort

\* Where parseCompose is after `await portManager.setPortMapping(...)`:
\* it goes on, has rejected ("failed"), or is still suspended ("awaiting").
AfterSetPortMapping(err, next) ==
    IF err = "none" THEN next
    ELSE IF err = "Unsettled" THEN "awaiting"
    ELSE "failed"

\* One iteration of the for-of loop of parseCompose.
ParseComposeEntry ==
    /\ pm_pc = "loop"
    /\ pm_i <= Len(compose_ports)
    /\ LET portEntry == NewPortEntry(compose_ports[pm_i])
           hostPort == SpacedHostPort(pm_ports, portEntry.hostPort)
           r == setPortMapping(pm_ports, portEntry.guestPort, hostPort, findOpenPorts)
       IN IF portEntry.guestPort = GUEST_RDP_PORT
          THEN /\ rdpHostPort' = hostPort
               /\ pm_i' = pm_i + 1
               /\ UNCHANGED <<pm_ports, pm_pc, pm_error, pm_calls>>
          ELSE /\ pm_ports' = r.ports
               /\ pm_calls' = Append(pm_calls, r.call)
               /\ pm_error' = r.err
               /\ pm_pc' = AfterSetPortMapping(r.err, "loop")
               /\ pm_i' = pm_i + 1
               /\ UNCHANGED rdpHostPort
    /\ UNCHANGED <<compose_ports, findOpenPorts, taken, bindDenied, portConfig, pm_out, notPortVars>>

\* After the loop: setPortMapping(GUEST_RDP_PORT, rdpHostPort) and return.
ParseComposeRdp ==
    /\ pm_pc = "loop"
    /\ pm_i > Len(compose_ports)
    /\ LET r == setPortMapping(pm_ports, GUEST_RDP_PORT, rdpHostPort, findOpenPorts)
       IN /\ pm_ports' = r.ports
          /\ pm_calls' = Append(pm_calls, r.call)
          /\ pm_error' = r.err
          /\ pm_pc' = AfterSetPortMapping(r.err, "done")
    /\ UNCHANGED <<compose_ports, findOpenPorts, taken, bindDenied, portConfig, pm_i, rdpHostPort, pm_out,
                   notPortVars>>

\* The caller reads portManager.composeFormat.
ReadComposeFormat ==
    /\ pm_pc = "done"
    /\ pm_out' = composeFormat(pm_ports)
    /\ pm_ports' = AfterComposeFormat(pm_ports)
    /\ pm_pc' = "formatted"
    /\ UNCHANGED <<compose_ports, findOpenPorts, taken, bindDenied, portConfig, pm_i, rdpHostPort, pm_error,
                   pm_calls, notPortVars>>

\* A caller reads the port configuration of the compose file the
\* negotiation was given.
ReadPortConfiguration ==
    /\ pm_pc \in {"done", "failed"}
    /\ portConfig = NotRead
    /\ portConfig' = getPortConfigurationFromCompose(compose_ports)
    /\ UNCHANGED <<compose_ports, findOpenPorts, taken, bindDenied, pm_ports, pm_i, pm_pc,
                   rdpHostPort, pm_error, pm_calls, pm_out, notPortVars>>

NextPorts ==
    \/ ParseComposeEntry
    \/ ParseComposeRdp
    \/ ReadComposeFormat
    \/ ReadPortConfiguration

(***************************************************************************)
(* InstallManager.install (install.ts)                                     *)
(***************************************************************************)

MaxPolls == 2
MaxAttempts == 2

IDLE == "Preparing"
CREATING_COMPOSE_FILE == "Creating Compose File"
CREATING_OEM == "Creating OEM Assets"
STARTING_CONTAINER == "Starting Container"
MONITORING_PREINSTALL == "Monitoring Preinstall"
INSTALLING_WINDOWS == "Installing Windows"
COMPLETED == "Completed"
INSTALL_ERROR == "Install Error"

\* The latest request of the run: the loop that issued it ("preinstall" for
\* /msg.html, "health" for /health) and what the request did.
Request(of, did) == [of |-> of, did |-> did]

NoRequest == Request("none", "none")

InstallStart ==
    /\ in_pc = "install"
    /\ in_state = IDLE
    /\ in_log = <<>>
    /\ in_polls = 0
    /\ in_sleeps = 0
    /\ in_attempts = 0
    /\ in_last = NoRequest
    /\ in_timers = 0
    /\ in_done = {}
    /\ composeWritten = FALSE
    /\ composeUp = FALSE

\* No installation is running.
InstallIdle ==
    /\ in_pc = "idle"
    /\ in_state = IDLE
    /\ in_log = <<>>
    /\ in_polls = 0
    /\ in_sleeps = 0
    /\ in_attempts = 0
    /\ in_last = NoRequest
    /\ in_timers = 0
    /\ in_done = {}
    /\ composeWritten = FALSE
    /\ composeUp = FALSE

\* changeState(newState): sets state and emits stateChanged.
changeState(newState) ==
    /\ in_state' = newState
    /\ in_log' = Append(in_log, newState)

\* createComposeFile up to `await PortManager.parseCompose(composeContent)`:
\* the state change, the two mkdirSync (which may throw), then the
\* negotiation over the default compose ports with findOpenPorts = true.
CreateComposeFile_Begin ==
    /\ in_pc = "install"
    /\ changeState(CREATING_COMPOSE_FILE)
    /\ \E mkdirThrows \in BOOLEAN :
          IF mkdirThrows
          THEN /\ in_pc' = "thrown"
               /\ UNCHANGED portVars
          ELSE /\ in_pc' = "negotiate"
               /\ compose_ports' = DefaultPorts
               /\ findOpenPorts' = TRUE
               /\ pm_ports' = <<>>
               /\ pm_i' = 1
               /\ pm_pc' = "loop"
               /\ rdpHostPort' = GUEST_RDP_PORT
               /\ pm_error' = "none"
               /\ pm_calls' = <<>>
               /\ UNCHANGED <<taken, bindDenied, portConfig, pm_out>>
    /\ UNCHANGED <<in_done, in_polls, in_last, in_timers, in_sleeps, in_attempts, composeWritten, composeUp,
                   notInstallVars>>

\* A createComposeFile that catches the rejection of parseCompose and goes
\* on to write the compose file.
CreateComposeFile_Rejected_WritesAnyway ==
    /\ in_pc = "negotiate"
    /\ pm_pc = "failed"
    /\ composeWritten' = TRUE
    /\ in_pc' = "oem"
    /\ UNCHANGED <<in_done, in_state, in_log, in_polls, in_last, in_timers, in_sleeps, in_attempts,
                   composeUp, portVars, notInstallVars>>

\* parseCompose rejected: createComposeFile rejects with the same error.
CreateComposeFile_Rejected ==
    /\ in_pc = "negotiate"
    /\ pm_pc = "failed"
    /\ in_pc' = "thrown"
    /\ UNCHANGED <<in_done, in_state, in_log, in_polls, in_last, in_timers, in_sleeps, in_attempts,
                   composeWritten, composeUp, portVars, notInstallVars>>

\* parseCompose resolved: ports = composeFormat, the environment and volume
\* edits, then container.writeCompose (writeFileSync, which may throw).
CreateComposeFile_Write ==
    /\ in_pc = "negotiate"
    /\ pm_pc = "done"
    /\ pm_out' = composeFormat(pm_ports)
    /\ pm_ports' = AfterComposeFormat(pm_ports)
    /\ pm_pc' = "formatted"
    /\ composeWritten' = TRUE
    /\ \E writeThrows \in BOOLEAN :
          IF writeThrows
          THEN in_pc' = "thrown" /\ UNCHANGED in_done
          ELSE in_pc' = "oem" /\ in_done' = in_done \cup {"writeCompose"}
    /\ UNCHANGED <<in_state, in_log, in_polls, in_last, in_timers, in_sleeps, in_attempts, composeUp,
                   compose_ports, findOpenPorts, taken, bindDenied, portConfig, pm_i, rdpHostPort, pm_error,
                   pm_calls, notInstallVars>>

\* A createOEMAssets whose catch block logs the copy error and returns.
CreateOEMAssets_SwallowsCopyError ==
    /\ in_pc = "oem"
    /\ changeState(CREATING_OEM)
    /\ in_pc' = "start"
    /\ \E copyThrows \in BOOLEAN :
          in_done' = IF copyThrows THEN in_done ELSE in_done \cup {"createOEMAssets"}
    /\ UNCHANGED <<in_polls, in_last, in_timers, in_sleeps, in_attempts, composeWritten, composeUp,
                   portVars, notInstallVars>>

\* createOEMAssets(): the state change, then the synchronous copy, which
\* throws when the source directory is missing or a copy fails.
CreateOEMAssets ==
    /\ in_pc = "oem"
    /\ changeState(CREATING_OEM)
    /\ \E copyThrows \in BOOLEAN :
          IF copyThrows
          THEN in_pc' = "thrown" /\ UNCHANGED in_done
          ELSE in_pc' = "start" /\ in_done' = in_done \cup {"createOEMAssets"}
    /\ UNCHANGED <<in_polls, in_last, in_timers, in_sleeps, in_attempts, composeWritten, composeUp,
                   portVars, notInstallVars>>

\* startContainer() up to `await this.container.compose("up")`.
StartContainer_Begin ==
    /\ in_pc = "start"
    /\ changeState(STARTING_CONTAINER)
    /\ composeUp' = TRUE
    /\ in_pc' = "composeUp"
    /\ UNCHANGED <<in_done, in_polls, in_last, in_timers, in_sleeps, in_attempts, composeWritten,
                   portVars, notInstallVars>>

\* compose("up") settles: it rethrows a failed command; on success
\* monitorContainerPreinstall starts with `await this.sleep(3000)`.
StartContainer_Settle ==
    /\ in_pc = "composeUp"
    /\ \E upThrows \in BOOLEAN :
          in_pc' = IF upThrows THEN "thrown" ELSE "settle"
    /\ UNCHANGED <<in_done, in_state, in_log, in_polls, in_last, in_timers, in_sleeps, in_attempts,
                   composeWritten, composeUp, portVars, notInstallVars>>

\* After the 3 s settle sleep: changeState(MONITORING_PREINSTALL).
MonitorPreinstall_Begin ==
    /\ in_pc = "settle"
    /\ changeState(MONITORING_PREINSTALL)
    /\ in_pc' = "poll"
    /\ UNCHANGED <<in_done, in_polls, in_last, in_timers, in_sleeps, in_attempts, composeWritten, composeUp,
                   portVars, notInstallVars>>

\* What one request for /msg.html can do.
PollOutcomes == {"status404", "page", "error404", "timeout", "error"}

\* monitorAPIHealth that starts polling without announcing its state.
MonitorAPIHealth_Begin_Silent ==
    /\ in_pc' = "health"
    /\ UNCHANGED <<in_state, in_log>>

\* monitorAPIHealth() up to its first await: changeState(INSTALLING_WINDOWS).
MonitorAPIHealth_Begin ==
    /\ changeState(INSTALLING_WINDOWS)
    /\ in_pc' = "health"

\* An iteration that treats a 404 status like any other page.
PollStep_Ignores404Status(outcome) ==
    IF outcome = "error404" THEN "return"
    ELSE IF outcome \in {"status404", "page"} THEN "sleep"
    ELSE "throw"

\* An iteration whose catch block logs the error and lets the loop go on.
PollStep_SwallowsErrors(outcome) ==
    IF outcome \in {"status404", "error404"} THEN "return" ELSE "sleep"

\* How one iteration of the while loop of monitorContainerPreinstall ends:
\* a 404 status, or a thrown error whose message includes '404', returns;
\* any other response sets the preinstall message and reaches the sleep;
\* any other thrown error (the 500 ms timeout included) is logged and
\* rethrown.
PollStep(outcome) ==
    IF outcome \in {"status404", "error404"} THEN "return"
    ELSE IF outcome = "page" THEN "sleep"
    ELSE "throw"

\* One iteration of the while loop of monitorContainerPreinstall; when it
\* returns, install() goes on with monitorAPIHealth.
PreinstallPoll ==
    /\ in_pc = "poll"
    /\ in_polls' = in_polls + 1
    /\ \E outcome \in PollOutcomes :
          /\ in_last' = Request("preinstall", outcome)
          /\ CASE PollStep(outcome) = "return" -> MonitorAPIHealth_Begin
               [] PollStep(outcome) = "sleep" ->
                     /\ in_polls < MaxPolls
                     /\ in_pc' = "sleep"
                     /\ UNCHANGED <<in_state, in_log>>
               [] OTHER ->
                     /\ in_pc' = "thrown"
                     /\ UNCHANGED <<in_state, in_log>>
    /\ UNCHANGED <<in_done, in_sleeps, in_attempts, in_timers, composeWritten, composeUp,
                   portVars, notInstallVars>>

\* `await this.sleep(500)` at the end of an iteration.
PreinstallSleep ==
    /\ in_pc = "sleep"
    /\ in_sleeps' = in_sleeps + 1
    /\ in_pc' = "poll"
    /\ UNCHANGED <<in_done, in_state, in_log, in_polls, in_last, in_timers, in_attempts, composeWritten,
                   composeUp, portVars, notInstallVars>>

\* What one request for /health can do.
HealthOutcomes == {"status200", "otherStatus", "abort", "error"}

\* A health loop that takes any response, whatever its status, as healthy.
HealthStep_AnyResponseEnds(outcome) ==
    IF outcome \in {"status200", "otherStatus"} THEN "done" ELSE "retry"

\* How one iteration of the while loop of monitorAPIHealth ends: status 200
\* returns; another status is logged; a thrown error (the AbortError of the
\* 5 s timeout or any other) is caught inside the loop, which goes on.
HealthStep(outcome) ==
    IF outcome = "status200" THEN "done" ELSE "retry"

\* One iteration of the while loop of monitorAPIHealth, from the request
\* to the end of the loop body: 200 changes the state to COMPLETED and
\* returns; every other outcome counts an attempt and calls
\* `this.sleep(5000 - elapsed)`, whose promise is not awaited, so the loop
\* is back at the request while the timer runs.
HealthPoll ==
    /\ in_pc = "health"
    /\ \E outcome \in HealthOutcomes :
          /\ in_last' = Request("health", outcome)
          /\ IF HealthStep(outcome) = "done"
             THEN /\ changeState(COMPLETED)
                  /\ in_pc' = "healthy"
                  /\ UNCHANGED <<in_attempts, in_timers>>
             ELSE /\ in_attempts < MaxAttempts
                  /\ in_attempts' = in_attempts + 1
                  /\ in_timers' = in_timers + 1
                  /\ UNCHANGED <<in_pc, in_state, in_log>>
    /\ UNCHANGED <<in_done, in_polls, in_sleeps, composeWritten, composeUp,
                   portVars, notInstallVars>>

\* The timer of one of the sleeps of monitorAPIHealth elapses; nothing
\* waits for it.
HealthSleepElapsed ==
    /\ in_timers > 0
    /\ in_timers' = in_timers - 1
    /\ UNCHANGED <<in_done, in_pc, in_state, in_log, in_polls, in_last, in_sleeps, in_attempts,
                   composeWritten, composeUp, portVars, notInstallVars>>

\* install() after the try block: changeState(COMPLETED).
InstallCompleted ==
    /\ in_pc = "healthy"
    /\ changeState(COMPLETED)
    /\ in_pc' = "returned"
    /\ UNCHANGED <<in_done, in_polls, in_last, in_timers, in_sleeps, in_attempts, composeWritten, composeUp,
                   portVars, notInstallVars>>

\* A catch block without its `return`: install() falls through to the
\* final changeState(COMPLETED).
CatchBlock_NoReturn(log) ==
    [log |-> log \o <<INSTALL_ERROR, COMPLETED>>, state |-> COMPLETED, pc |-> "returned"]

\* The catch block of install(): [log, state, pc] after it.
CatchBlock(log) ==
    [log |-> Append(log, INSTALL_ERROR), state |-> INSTALL_ERROR, pc |-> "returned"]

\* A stage threw: the catch block of install() runs.
InstallCatch ==
    /\ in_pc = "thrown"
    /\ in_log' = CatchBlock(in_log).log
    /\ in_state' = CatchBlock(in_log).state
    /\ in_pc' = CatchBlock(in_log).pc
    /\ UNCHANGED <<in_done, in_polls, in_last, in_timers, in_sleeps, in_attempts, composeWritten, composeUp,
                   portVars, notInstallVars>>

NextInstall ==
    \/ CreateComposeFile_Begin
    \/ ParseComposeEntry
    \/ ParseComposeRdp
    \/ CreateComposeFile_Rejected
    \/ CreateComposeFile_Write
    \/ CreateOEMAssets
    \/ StartContainer_Begin
    \/ StartContainer_Settle
    \/ MonitorPreinstall_Begin
    \/ PreinstallPoll
    \/ PreinstallSleep
    \/ HealthPoll
    \/ HealthSleepElapsed
    \/ InstallCompleted
    \/ InstallCatch

(***************************************************************************)
(* Container runtime adapters (docker.ts, podman adapter)                  *)
(***************************************************************************)

\* enum ContainerStatus
CREATED == "Created"
RUNNING == "Running"
PAUSED == "Paused"
EXITED == "Exited"
UNKNOWN == "Unknown"

\* The JavaScript value undefined.
Undefined == "undefined"

\* cachedPortMappings: null before the first port() call, then the array
\* of the last successful call.
Null == [isNull |-> TRUE, table |-> <<>>]

Cached(ret) == [isNull |-> FALSE, table |-> ret]

\* Winboat.qmpMgr when no manager exists.
NoQmpMgr == "null"

Runtimes == {"Docker", "Podman"}

Whitespace == {" ", "\n"}

\* s.trim()
RECURSIVE Trim(_)
Trim(s) ==
    IF s # <<>> /\ s[1] \in Whitespace THEN Trim(Tail(s))
    ELSE IF s # <<>> /\ s[Len(s)] \in Whitespace THEN Trim(SubSeq(s, 1, Len(s) - 1))
    ELSE s

\* s.split(needle) for a separator of any length.
RECURSIVE SplitOn(_, _)
SplitOn(s, needle) ==
    LET i == IndexOf(s, needle)
    IN IF i < 0 THEN <<s>>
       ELSE <<SubSeq(s, 1, i)>> \o SplitOn(SubSeq(s, i + Len(needle) + 1, Len(s)), needle)

W_created == <<"c", "r", "e", "a", "t", "e", "d">>
W_restarting == <<"r", "e", "s", "t", "a", "r", "t", "i", "n", "g">>
W_running == <<"r", "u", "n", "n", "i", "n", "g">>
W_paused == <<"p", "a", "u", "s", "e", "d">>
W_exited == <<"e", "x", "i", "t", "e", "d">>
W_dead == <<"d", "e", "a", "d">>
W_stopping == <<"s", "t", "o", "p", "p", "i", "n", "g">>
W_unknown == <<"u", "n", "k", "n", "o", "w", "n">>
W_removing == <<"r", "e", "m", "o", "v", "i", "n", "g">>

\* statusMap[status] of DockerContainer.getStatus; a key the object literal
\* does not have reads as undefined.
DockerStatusMap(status) ==
    CASE status = W_created -> CREATED
      [] status = W_restarting -> UNKNOWN
      [] status = W_running -> RUNNING
      [] status = W_paused -> PAUSED
      [] status = W_exited -> EXITED
      [] status = W_dead -> UNKNOWN
      [] OTHER -> Undefined

\* statusMap[status] of PodmanContainer.getStatus.
PodmanStatusMap(status) ==
    CASE status = W_created -> CREATED
      [] status = W_exited -> EXITED
      [] status = W_paused -> PAUSED
      [] status = W_running -> RUNNING
      [] status = W_stopping -> EXITED
      [] status = W_unknown -> UNKNOWN
      [] OTHER -> Undefined

\* getStatus(): result is what execAsync(inspect) settled with; a rejected
\* command is caught and yields UNKNOWN.
getStatus(rt, result) ==
    IF ~result.ok THEN UNKNOWN
    ELSE IF rt = "Docker" THEN DockerStatusMap(Trim(result.stdout))
    ELSE PodmanStatusMap(Trim(result.stdout))

\* The status words the inspect command of each runtime prints.
DockerStatuses ==
    {W_created, W_running, W_paused, W_restarting, W_removing, W_exited, W_dead}

PodmanStatuses ==
    {W_created, W_running, W_paused, W_exited, W_stopping, W_unknown, W_removing}

\* What execAsync(inspect) can settle with while the container is, or is
\* not, running: a status line, or a rejection.
InspectResults(rt, up) ==
    LET all == IF rt = "Docker" THEN DockerStatuses ELSE PodmanStatuses
        words == IF up THEN {W_running} ELSE all \ {W_running}
    IN {[ok |-> TRUE, stdout |-> w \o <<"\n">>] : w \in words}
           \cup {[ok |-> FALSE, stdout |-> <<>>]}

\* The values getStatus() can return, per runtime and container condition.
StatusResults ==
    [rt \in Runtimes, up \in BOOLEAN |->
        {getStatus(rt, r) : r \in InspectResults(rt, up)}]

\* What execAsync(port) can settle with: the published ports, one per
\* line, or a rejection.
PortStdout ==
    <<"7", "1", "4", "8", "/", "t", "c", "p", " ", "-", ">", " ",
      "0", ".", "0", ".", "0", ".", "0", ":", "4", "7", "1", "4", "8", "\n",
      "3", "3", "8", "9", "/", "t", "c", "p", " ", "-", ">", " ",
      "0", ".", "0", ".", "0", ".", "0", ":", "3", "3", "8", "9", "\n">>

PortCommandResults ==
    {[ok |-> TRUE, stdout |-> PortStdout], [ok |-> FALSE, stdout |-> <<>>]}

\* `${hostPart}:${containerPart}` of one output line; a missing part is
\* interpolated as "undefined".
PortLineEntry(line) ==
    LET raw == SplitOn(line, <<"-", ">">>)
        parts == [k \in 1..Len(raw) |-> Trim(raw[k])]
        hostPart == IF Len(parts) >= 2 THEN parts[2]
                    ELSE <<"u", "n", "d", "e", "f", "i", "n", "e", "d">>
        containerPart == parts[1]
    IN hostPart \o <<":">> \o containerPart

\* port(): [err, ret]; any throw (the command, or an entry that does not
\* parse) is rethrown and leaves cachedPortMappings as it was.
port(result) ==
    IF ~result.ok THEN [err |-> TRUE, ret |-> <<>>]
    ELSE LET lines == Split(Trim(result.stdout), "\n")
             ret == [k \in 1..Len(lines) |-> NewComposePortEntry(PortLineEntry(lines[k]))]
         IN IF \E k \in 1..Len(ret) : ret[k].err # "none"
            THEN [err |-> TRUE, ret |-> <<>>]
            ELSE [err |-> FALSE, ret |-> ret]

PortResults == {port(r) : r \in PortCommandResults}

\* getActiveHostPort(container, port, protocol): [found, host]; found is
\* false for undefined. The status of the container is not consulted.
getActiveHostPort(cached, guestPort, protocol) ==
    LET table == cached.table
        hits == IF cached.isNull THEN {}
                ELSE {k \in 1..Len(table) :
                         /\ ~table[k].container.range
                         /\ table[k].container.start = guestPort
                         /\ table[k].protocol = protocol}
    IN IF hits = {} THEN [found |-> FALSE, host |-> NaN]
       ELSE [found |-> TRUE,
             host |-> table[CHOOSE k \in hits : \A j \in hits : k <= j].host.start]

\* get apiUrl(): undefined when the API port is undefined, 0 or NaN.
apiUrl(cached) ==
    LET apiPort == getActiveHostPort(cached, GUEST_API_PORT, TCP)
    IN IF ~apiPort.found \/ apiPort.host = 0 \/ apiPort.host = NaN THEN Undefined
       ELSE <<"h", "t", "t", "p", ":", "/", "/", "1", "2", "7", ".", "0", ".",
              "0", ".", "1", ":">> \o NumberToString(apiPort.host)

(***************************************************************************)
(* Winboat, the lifecycle orchestrator                                     *)
(***************************************************************************)

\* Status-tick handlers in flight at once, and poller callbacks in flight
\* at once.
MaxTicks == 2
MaxPending == 2

\* Where a status-tick handler can be suspended.
TickPcs == {"getStatus", "port", "qmpAlive"}

\* Where a poller callback can be suspended. A health request is answered
\* by the guest when it is received: healthOk is a request that met a
\* serving guest API, healthFail one that did not. qmpOff is the callback
\* of a QMP tick that found experimentalFeatures off, qmp that of one that
\* found it on.
PendingKinds == {"healthOk", "healthFail", "version", "update", "rehealth",
                 "rdp", "metrics", "qmp", "qmpOff"}

Inc(b, k) == [b EXCEPT ![k] = @ + 1]
Dec(b, k) == [b EXCEPT ![k] = @ - 1]
Move(b, from, to) == [b EXCEPT ![from] = @ - 1, ![to] = @ + 1]

Total(b) ==
    LET RECURSIVE Sum(_)
        Sum(S) == IF S = {} THEN 0
                  ELSE LET k == CHOOSE x \in S : TRUE IN b[k] + Sum(S \ {k})
    IN Sum(DOMAIN b)

\* How a request of a poller callback ended: the poller ("health",
\* "metrics" or "rdp"), whether the request failed, and whether the failure
\* left the callback as a rejected promise (no caller awaits the callback
\* of a setInterval, so nothing handles it).
Settled(poller, failed, rejected) ==
    [poller |-> poller, failed |-> failed, rejected |-> rejected]

NothingSettled == Settled("none", FALSE, FALSE)

\* The orchestrator right after its construction; the container may
\* already be running.
OrchStart ==
    /\ runtime \in Runtimes
    /\ guestUp \in BOOLEAN
    /\ containerStatus = EXITED
    /\ tk = [p \in TickPcs |-> 0]
    /\ healthInterval = FALSE
    /\ metricsInterval = FALSE
    /\ rdpInterval = FALSE
    /\ qmpInterval = FALSE
    /\ isOnline = FALSE
    /\ rdpConnected = FALSE
    /\ isUpdatingGuestServer = FALSE
    /\ qmpMgr = NoQmpMgr
    /\ cachedPortMappings = Null
    /\ pending = [k \in PendingKinds |-> 0]
    /\ settled = NothingSettled
    /\ refreshed = FALSE

\* No orchestrator is running.
OrchIdle ==
    /\ runtime = "Docker"
    /\ guestUp = FALSE
    /\ containerStatus = EXITED
    /\ tk = [p \in TickPcs |-> 0]
    /\ healthInterval = FALSE
    /\ metricsInterval = FALSE
    /\ rdpInterval = FALSE
    /\ qmpInterval = FALSE
    /\ isOnline = FALSE
    /\ rdpConnected = FALSE
    /\ isUpdatingGuestServer = FALSE
    /\ qmpMgr = NoQmpMgr
    /\ cachedPortMappings = Null
    /\ pending = [k \in PendingKinds |-> 0]
    /\ settled = NothingSettled
    /\ refreshed = FALSE

\* The container starts, or stops running (user action, crash, reboot).
ContainerChange ==
    /\ guestUp' = ~guestUp
    /\ UNCHANGED <<runtime, refreshed, settled, containerStatus, tk, timerVars, flagVars, qmpMgr,
                   cachedPortMappings, pending, notOrchVars>>

\* The 1000 ms status interval fires: the handler calls getStatus() and is
\* suspended on it. Nothing makes a firing wait for the previous handler.
TickFire ==
    /\ Total(tk) < MaxTicks
    /\ tk' = Inc(tk, "getStatus")
    /\ UNCHANGED <<runtime, refreshed, settled, guestUp, containerStatus, timerVars, flagVars, qmpMgr,
                   cachedPortMappings, pending, notOrchVars>>

\* getStatus() settles. An unchanged status ends the handler; RUNNING goes
\* on to await port(); any other value runs destroyAPIIntervals() up to its
\* only await, qmpMgr.isAlive().
TickStatus ==
    /\ tk["getStatus"] > 0
    /\ \E st \in StatusResults[runtime, guestUp] :
        IF st = containerStatus
        THEN /\ tk' = Dec(tk, "getStatus")
             /\ UNCHANGED <<containerStatus, timerVars, flagVars, refreshed>>
        ELSE /\ containerStatus' = st
             /\ refreshed' = FALSE
             /\ IF st = RUNNING
                THEN /\ tk' = Move(tk, "getStatus", "port")
                     /\ UNCHANGED <<timerVars, flagVars>>
                ELSE /\ healthInterval' = FALSE
                     /\ isOnline' = IF healthInterval THEN FALSE ELSE isOnline
                     /\ metricsInterval' = FALSE
                     /\ rdpInterval' = FALSE
                     /\ rdpConnected' = IF rdpInterval THEN FALSE ELSE rdpConnected
                     /\ qmpInterval' = FALSE
                     /\ tk' = IF qmpInterval /\ qmpMgr # NoQmpMgr
                              THEN Move(tk, "getStatus", "qmpAlive")
                              ELSE Dec(tk, "getStatus")
                     /\ UNCHANGED isUpdatingGuestServer
    /\ UNCHANGED <<runtime, settled, guestUp, qmpMgr, cachedPortMappings, pending, notOrchVars>>

\* port() settles. A throw rejects the handler before createAPIIntervals();
\* otherwise the table is cached and createAPIIntervals() runs to its end:
\* the three API timers are replaced and the QMP timer is created only
\* when experimentalFeatures is on.
TickPort ==
    /\ tk["port"] > 0
    /\ tk' = Dec(tk, "port")
    /\ \E r \in PortResults :
        IF r.err
        THEN UNCHANGED <<cachedPortMappings, timerVars, refreshed>>
        ELSE /\ cachedPortMappings' = Cached(r.ret)
             /\ refreshed' = (containerStatus = RUNNING)
             /\ healthInterval' = TRUE
             /\ metricsInterval' = TRUE
             /\ rdpInterval' = TRUE
             /\ \E experimentalFeatures \in BOOLEAN :
                    qmpInterval' = experimentalFeatures
    /\ UNCHANGED <<runtime, settled, guestUp, containerStatus, flagVars, qmpMgr, pending,
                   notOrchVars>>

\* qmpMgr.isAlive() of destroyAPIIntervals() settles: the manager is
\* dropped, unless the call threw, which is caught and logged.
TickQmpAlive ==
    /\ tk["qmpAlive"] > 0
    /\ tk' = Dec(tk, "qmpAlive")
    /\ \E threw \in BOOLEAN :
        qmpMgr' = IF threw THEN qmpMgr ELSE NoQmpMgr
    /\ UNCHANGED <<runtime, refreshed, settled, guestUp, containerStatus, timerVars, flagVars,
                   cachedPortMappings, pending, notOrchVars>>

\* The health interval fires: getHealth() sends the request, whatever
\* isOnline and isUpdatingGuestServer are.
HealthFire ==
    /\ healthInterval
    /\ Total(pending) < MaxPending
    /\ \E served \in BOOLEAN :
        /\ served => (guestUp /\ apiUrl(cachedPortMappings) # Undefined)
        /\ pending' = Inc(pending, IF served THEN "healthOk" ELSE "healthFail")
    /\ UNCHANGED <<runtime, refreshed, settled, guestUp, containerStatus, tk, timerVars, flagVars, qmpMgr,
                   cachedPortMappings, notOrchVars>>

\* getHealth() settles (its catch turns a failed request into false) and
\* the callback goes on, whether or not its timer still exists; going
\* online starts checkVersionAndUpdateGuestServer().
HealthSettle ==
    \E kind \in {"healthOk", "healthFail"} :
        /\ pending[kind] > 0
        /\ settled' = Settled("health", kind = "healthFail", FALSE)
        /\ LET _isOnline == (kind = "healthOk")
           IN IF _isOnline # isOnline
              THEN /\ isOnline' = _isOnline
                   /\ pending' = IF _isOnline THEN Move(pending, kind, "version")
                                 ELSE Dec(pending, kind)
              ELSE /\ pending' = Dec(pending, kind)
                   /\ UNCHANGED isOnline
        /\ UNCHANGED <<runtime, refreshed, guestUp, containerStatus, tk, timerVars, rdpConnected,
                       isUpdatingGuestServer, qmpMgr, cachedPortMappings, notOrchVars>>

\* The /version request settles: a failure rejects the callback, the same
\* version returns, another version sets the update flag and posts the
\* update.
VersionSettle ==
    /\ pending["version"] > 0
    /\ \E outcome \in {"error", "same", "differs"} :
        /\ outcome # "error" => guestUp
        /\ settled' = IF outcome = "error" THEN Settled("health", TRUE, TRUE)
                      ELSE settled
        /\ IF outcome = "differs"
           THEN /\ isUpdatingGuestServer' = TRUE
                /\ pending' = Move(pending, "version", "update")
           ELSE /\ pending' = Dec(pending, "version")
                /\ UNCHANGED isUpdatingGuestServer
    /\ UNCHANGED <<runtime, refreshed, guestUp, containerStatus, tk, timerVars, isOnline,
                   rdpConnected, qmpMgr, cachedPortMappings, notOrchVars>>

\* The /update request settles: a failure clears the flag and rethrows,
\* success goes on to wait for the guest to answer /health again.
UpdateSettle ==
    /\ pending["update"] > 0
    /\ \E ok \in BOOLEAN :
        /\ ok => guestUp
        /\ settled' = IF ok THEN settled ELSE Settled("health", TRUE, TRUE)
        /\ IF ok
           THEN /\ pending' = Move(pending, "update", "rehealth")
                /\ UNCHANGED isUpdatingGuestServer
           ELSE /\ pending' = Dec(pending, "update")
                /\ isUpdatingGuestServer' = FALSE
    /\ UNCHANGED <<runtime, refreshed, guestUp, containerStatus, tk, timerVars, isOnline,
                   rdpConnected, qmpMgr, cachedPortMappings, notOrchVars>>

\* The health loop after an update sees the guest online: the flag is
\* cleared. While getHealth() returns false the loop goes on.
RehealthOnline ==
    /\ pending["rehealth"] > 0
    /\ guestUp
    /\ apiUrl(cachedPortMappings) # Undefined
    /\ pending' = Dec(pending, "rehealth")
    /\ isUpdatingGuestServer' = FALSE
    /\ UNCHANGED <<runtime, refreshed, settled, guestUp, containerStatus, tk, timerVars, isOnline,
                   rdpConnected, qmpMgr, cachedPortMappings, notOrchVars>>

\* The RDP status interval fires while the guest is online and not
\* updating: with monitoring off the flag is cleared, otherwise the request
\* is sent.
RdpFire ==
    /\ rdpInterval
    /\ isOnline /\ ~isUpdatingGuestServer
    /\ \E rdpMonitoringEnabled \in BOOLEAN :
        IF ~rdpMonitoringEnabled
        THEN /\ rdpConnected' = FALSE
             /\ UNCHANGED pending
        ELSE /\ Total(pending) < MaxPending
             /\ pending' = Inc(pending, "rdp")
             /\ UNCHANGED rdpConnected
    /\ UNCHANGED <<runtime, refreshed, settled, guestUp, containerStatus, tk, timerVars, isOnline,
                   isUpdatingGuestServer, qmpMgr, cachedPortMappings, notOrchVars>>

\* getRDPConnectedStatus() settles: a failure rejects the callback, a
\* value is stored, whether or not the timer still exists.
RdpSettle ==
    /\ pending["rdp"] > 0
    /\ pending' = Dec(pending, "rdp")
    /\ \E outcome \in {"error", "connected", "disconnected"} :
        /\ outcome # "error" => guestUp
        /\ settled' = Settled("rdp", outcome = "error", outcome = "error")
        /\ rdpConnected' = IF outcome = "error" THEN rdpConnected
                           ELSE (outcome = "connected")
    /\ UNCHANGED <<runtime, refreshed, guestUp, containerStatus, tk, timerVars, isOnline,
                   isUpdatingGuestServer, qmpMgr, cachedPortMappings, notOrchVars>>

\* The metrics interval fires while the guest is online and not updating.
MetricsFire ==
    /\ metricsInterval
    /\ isOnline /\ ~isUpdatingGuestServer
    /\ Total(pending) < MaxPending
    /\ pending' = Inc(pending, "metrics")
    /\ UNCHANGED <<runtime, refreshed, settled, guestUp, containerStatus, tk, timerVars, flagVars, qmpMgr,
                   cachedPortMappings, notOrchVars>>

\* getMetrics() settles: the value is stored in metrics, or the failure
\* (request or res.json()) rejects the callback.
MetricsSettle ==
    /\ pending["metrics"] > 0
    /\ pending' = Dec(pending, "metrics")
    /\ \E outcome \in {"error", "metrics"} :
        /\ outcome # "error" => guestUp
        /\ settled' = Settled("metrics", outcome = "error", outcome = "error")
    /\ UNCHANGED <<runtime, refreshed, guestUp, containerStatus, tk, timerVars, flagVars, qmpMgr,
                   cachedPortMappings, notOrchVars>>

\* The QMP interval fires (first right after its creation): the timer
\* removes itself when experimentalFeatures was turned off, and the
\* callback goes on to look at the manager in either case.
QmpFire ==
    /\ qmpInterval
    /\ Total(pending) < MaxPending
    /\ \E experimentalFeatures \in BOOLEAN :
        /\ qmpInterval' = experimentalFeatures
        /\ pending' = Inc(pending, IF experimentalFeatures THEN "qmp" ELSE "qmpOff")
    /\ UNCHANGED <<runtime, refreshed, settled, guestUp, containerStatus, tk, healthInterval,
                   metricsInterval, rdpInterval, flagVars, qmpMgr,
                   cachedPortMappings, notOrchVars>>

\* The QMP callback settles: a live manager is kept, otherwise a
\* connection is attempted; a failed attempt is caught and logged.
QmpSettle ==
    /\ \E kind \in {"qmp", "qmpOff"} :
        /\ pending[kind] > 0
        /\ pending' = Dec(pending, kind)
    /\ \E connected \in BOOLEAN :
        /\ connected => guestUp
        /\ qmpMgr' = IF connected THEN "open" ELSE qmpMgr
    /\ UNCHANGED <<runtime, refreshed, settled, guestUp, containerStatus, tk, timerVars, flagVars,
                   cachedPortMappings, notOrchVars>>

NextOrch ==
    \/ ContainerChange
    \/ TickFire
    \/ TickStatus
    \/ TickPort
    \/ TickQmpAlive
    \/ HealthFire
    \/ HealthSettle
    \/ VersionSettle
    \/ UpdateSettle
    \/ RehealthOnline
    \/ RdpFire
    \/ RdpSettle
    \/ MetricsFire
    \/ MetricsSettle
    \/ QmpFire
    \/ QmpSettle

(***************************************************************************)
(* The compose file on disk: writeCompose and Winboat.replaceCompose       *)
(***************************************************************************)

\* Calls of replaceCompose / writeCompose in one run, and the largest
\* value of Date.now().
MaxReplaces == 2
MaxClock == 2

\* A file: it does not exist, or holds nothing, a prefix, or the whole of
\* the YAML text of specification number `content`.
File(state, content) == [state |-> state, content |-> content]

NoFile == File("absent", 0)

\* fs.renameSync(file, join(backupDir, name)): an existing backup of the
\* same name is replaced.
BackupOf_Dropped(backups, name, file) == backups

BackupOf(backups, name, file) ==
    {b \in backups : b.name # name} \cup {[name |-> name, file |-> file]}

\* An installed system at rest: the compose file holds specification 1.
FileStart ==
    /\ fs_compose = File("complete", 1)
    /\ fs_backup = {}
    /\ backupDirExists \in BOOLEAN
    /\ rc_pc = "idle"
    /\ rc_kind = "none"
    /\ rc_new = 0
    /\ rc_prev = NoFile
    /\ rc_calls = 0
    /\ clock = 0
    /\ containerActionLoading = FALSE

FileIdle ==
    /\ fs_compose = File("complete", 1)
    /\ fs_backup = {}
    /\ backupDirExists = FALSE
    /\ rc_pc = "idle"
    /\ rc_kind = "none"
    /\ rc_new = 0
    /\ rc_prev = NoFile
    /\ rc_calls = 0
    /\ clock = 0
    /\ containerActionLoading = FALSE

\* Date.now() advances.
ClockTick ==
    /\ clock < MaxClock
    /\ clock' = clock + 1
    /\ UNCHANGED <<fs_compose, fs_backup, backupDirExists, rc_pc, rc_kind, rc_new,
                   rc_prev, rc_calls, containerActionLoading,
                   notFileVars>>

\* replaceCompose(composeConfig) is called: a running container is stopped
\* first, otherwise compose("down") is awaited.
ReplaceCompose_Begin ==
    /\ rc_pc \in {"idle", "done", "failed"}
    /\ rc_calls < MaxReplaces
    /\ rc_calls' = rc_calls + 1
    /\ rc_kind' = "replace"
    /\ rc_new' = rc_calls + 2
    /\ rc_pc' = IF containerStatus = RUNNING THEN "stop" ELSE "down"
    /\ containerActionLoading' = TRUE
    /\ UNCHANGED <<fs_compose, fs_backup, backupDirExists, rc_prev, clock, notFileVars>>

\* What a container action leaves in containerActionLoading when the
\* adapter call it awaited settles: the assignment of false is the last
\* statement, after the await, and is not reached when the call rejects.
LoadingAfter(ok, loading) == IF ok THEN FALSE ELSE loading

\* stopContainer() called by replaceCompose settles (it has set the flag
\* again and clears it when container("stop") resolves); a rejection
\* rejects replaceCompose.
StopContainer_Settle ==
    /\ rc_pc = "stop"
    /\ \E ok \in BOOLEAN :
        /\ rc_pc' = IF ok THEN "down" ELSE "failed"
        /\ containerActionLoading' = LoadingAfter(ok, TRUE)
    /\ UNCHANGED <<fs_compose, fs_backup, backupDirExists, rc_kind, rc_new, rc_prev,
                   rc_calls, clock, notFileVars>>

\* compose("down") settles; from here to compose("up") the function runs
\* without an await. The file found at composeFilePath is the previous
\* specification.
ComposeDown_Settle ==
    /\ rc_pc = "down"
    /\ \E ok \in BOOLEAN :
        /\ rc_pc' = IF ok THEN "mkdir" ELSE "failed"
        /\ rc_prev' = IF ok THEN fs_compose ELSE rc_prev
    /\ UNCHANGED <<fs_compose, fs_backup, backupDirExists, rc_kind, rc_new, rc_calls,
                   clock, containerActionLoading,
                   notFileVars>>

\* if (!fs.existsSync(backupDir)) fs.mkdirSync(backupDir); mkdirSync may
\* throw.
BackupDir_Make ==
    /\ rc_pc = "mkdir"
    /\ IF backupDirExists
       THEN rc_pc' = "rename" /\ UNCHANGED backupDirExists
       ELSE \E ok \in BOOLEAN :
               /\ backupDirExists' = ok
               /\ rc_pc' = IF ok THEN "rename" ELSE "failed"
    /\ UNCHANGED <<fs_compose, fs_backup, rc_kind, rc_new, rc_prev, rc_calls, clock,
                   containerActionLoading,
                   notFileVars>>

\* fs.renameSync(composeFilePath, join(backupDir, `${Date.now()}-${name}`)):
\* the file leaves composeFilePath; a missing file, or any other failure,
\* throws and leaves both places as they were.
Backup_Rename ==
    /\ rc_pc = "rename"
    /\ \E ok \in BOOLEAN :
        /\ ok => fs_compose.state # "absent"
        /\ IF ok
           THEN /\ fs_backup' = BackupOf(fs_backup, clock, fs_compose)
                /\ fs_compose' = NoFile
                /\ rc_pc' = "write"
           ELSE /\ rc_pc' = "failed"
                /\ UNCHANGED <<fs_compose, fs_backup>>
    /\ UNCHANGED <<backupDirExists, rc_kind, rc_new, rc_prev, rc_calls, clock,
                   containerActionLoading,
                   notFileVars>>

\* writeCompose(compose) called on its own (createComposeFile of an
\* installation over an existing directory).
WriteCompose_Begin ==
    /\ rc_pc \in {"idle", "done", "failed"}
    /\ rc_calls < MaxReplaces
    /\ rc_calls' = rc_calls + 1
    /\ rc_kind' = "write"
    /\ rc_new' = rc_calls + 2
    /\ rc_prev' = fs_compose
    /\ rc_pc' = "write"
    /\ UNCHANGED <<fs_compose, fs_backup, backupDirExists, clock, containerActionLoading,
                   notFileVars>>

\* fs.writeFileSync, first part: YAML.stringify, then the file is opened
\* for writing, which creates it or truncates it; either may throw.
WriteCompose_Open ==
    /\ rc_pc = "write"
    /\ \E ok \in BOOLEAN :
        IF ok
        THEN /\ fs_compose' = File("empty", rc_new)
             /\ rc_pc' = "writing"
        ELSE /\ rc_pc' = "failed"
             /\ UNCHANGED fs_compose
    /\ UNCHANGED <<fs_backup, backupDirExists, rc_kind, rc_new, rc_prev, rc_calls,
                   clock, containerActionLoading,
                   notFileVars>>

\* fs.writeFileSync, second part: the text is written, in one piece or in
\* several; a write may fail (disk full) and throw. After the last piece
\* replaceCompose goes on to await compose("up").
WriteCompose_Data ==
    /\ rc_pc = "writing"
    /\ \E outcome \in {"piece", "rest", "throw"} :
        /\ outcome = "piece" => fs_compose.state = "empty"
        /\ fs_compose' = CASE outcome = "piece" -> File("partial", rc_new)
                           [] outcome = "rest" -> File("complete", rc_new)
                           [] OTHER -> fs_compose
        /\ rc_pc' = CASE outcome = "piece" -> "writing"
                      [] outcome = "rest" -> (IF rc_kind = "replace" THEN "up" ELSE "done")
                      [] OTHER -> "failed"
    /\ UNCHANGED <<fs_backup, backupDirExists, rc_kind, rc_new, rc_prev, rc_calls,
                   clock, containerActionLoading,
                   notFileVars>>

\* compose("up") settles; replaceCompose then clears the flag and returns.
ComposeUp_Settle ==
    /\ rc_pc = "up"
    /\ \E ok \in BOOLEAN :
        /\ rc_pc' = IF ok THEN "done" ELSE "failed"
        /\ containerActionLoading' = LoadingAfter(ok, containerActionLoading)
    /\ UNCHANGED <<fs_compose, fs_backup, backupDirExists, rc_kind, rc_new, rc_prev,
                   rc_calls, clock, notFileVars>>

\* The container actions of the orchestrator that only call the adapter.
ContainerActions == {"start", "stop", "pause", "unpause"}

\* startContainer / stopContainer / pauseContainer / unpauseContainer is
\* called: the flag is set and container(action) is awaited.
ContainerAction_Begin ==
    /\ rc_pc \in {"idle", "done", "failed"}
    /\ rc_calls < MaxReplaces
    /\ rc_calls' = rc_calls + 1
    /\ \E action \in ContainerActions : rc_kind' = action
    /\ rc_pc' = "container"
    /\ containerActionLoading' = TRUE
    /\ UNCHANGED <<fs_compose, fs_backup, backupDirExists, rc_new, rc_prev, clock,
                   notFileVars>>

\* container(action) settles: on success the flag is cleared; a rejection
\* (rethrown by the catch block of startContainer, uncaught in the other
\* three) leaves the method before that statement.
ContainerAction_Settle ==
    /\ rc_pc = "container"
    /\ \E ok \in BOOLEAN :
        /\ rc_pc' = IF ok THEN "done" ELSE "failed"
        /\ containerActionLoading' = LoadingAfter(ok, containerActionLoading)
    /\ UNCHANGED <<fs_compose, fs_backup, backupDirExists, rc_kind, rc_new, rc_prev,
                   rc_calls, clock, notFileVars>>

NextFile ==
    \/ ContainerAction_Begin
    \/ ContainerAction_Settle
    \/ ClockTick
    \/ ReplaceCompose_Begin
    \/ StopContainer_Settle
    \/ ComposeDown_Settle
    \/ BackupDir_Make
    \/ Backup_Rename
    \/ WriteCompose_Begin
    \/ WriteCompose_Open
    \/ WriteCompose_Data
    \/ ComposeUp_Settle

(***************************************************************************)
(* Capability probes: DockerContainer._getSpecs, PodmanContainer._getSpecs *)
(***************************************************************************)

\* What execAsync(command) did: it rejected, or resolved with a stdout.
Exec(threw, stdout) == [threw |-> threw, stdout |-> stdout]

NotRun == Exec(FALSE, <<"?">>)

ExecThrew == Exec(TRUE, <<>>)

S_Version == <<"2", "7", ".", "0">>
S_ComposeV2 == <<"v", "2", ".", "3", "5", ".", "1">>
S_Compose2 == <<"2", ".", "3", "6", ".", "2">>
S_Compose1 == <<"1", ".", "2", "9", ".", "2">>
S_Compose10 == <<"v", "1", "0", ".", "0", ".", "0">>
S_ComposeDev == <<"d", "e", "v">>
S_ComposeShort == <<"2", ".", "3">>
S_Ps == <<"I", "D", "\n">>
S_GroupsIn == <<"u", " ", "d", "o", "c", "k", "e", "r", "\n">>
S_GroupsOut == <<"u", " ", "w", "\n">>
S_GroupsLike == <<"d", "o", "c", "k", "e", "r", "s", "\n">>

\* The commands of the two _getSpecs, with the flag each one sets and the
\* outputs the command is given.
DockerProbes == <<"dockerInstalled", "dockerComposeInstalled", "dockerIsRunning",
                  "dockerIsInUserGroups">>

PodmanProbes == <<"podmanInstalled", "podmanComposeInstalled">>

ProbeOutputs(flag) ==
    CASE flag = "dockerComposeInstalled" ->
            {<<>>, S_ComposeV2, S_Compose2, S_Compose1, S_Compose10, S_ComposeDev,
             S_ComposeShort}
      [] flag = "dockerIsRunning" -> {<<>>, S_Ps}
      [] flag = "dockerIsInUserGroups" -> {<<>>, S_GroupsIn, S_GroupsOut, S_GroupsLike}
      [] OTHER -> {<<>>, S_Version}

ProbeResults(flag) == {ExecThrew} \cup {Exec(FALSE, o) : o \in ProbeOutputs(flag)}

\* s.match(/(\d+\.\d+\.\d+)/) tried at index i: three runs of digits
\* separated by dots.
VersionAt(s, i) ==
    LET rest(k) == SubSeq(s, k, Len(s))
        a == DigitPrefixLen(rest(i))
        b == DigitPrefixLen(rest(i + a + 1))
    IN /\ a >= 1
       /\ i + a <= Len(s) /\ s[i + a] = "."
       /\ b >= 1
       /\ i + a + b + 1 <= Len(s) /\ s[i + a + b + 1] = "."
       /\ DigitPrefixLen(rest(i + a + b + 2)) >= 1

\* parseInt(versionMatch[1].split(".")[0], 10) of the leftmost match, NaN
\* standing for "no match".
MajorVersion(s) ==
    LET hits == {i \in 1..Len(s) : VersionAt(s, i)}
    IN IF hits = {} THEN NaN
       ELSE LET i == CHOOSE h \in hits : \A g \in hits : h <= g
            IN DecimalValue(SubSeq(s, i, i + DigitPrefixLen(SubSeq(s, i, Len(s))) - 1))

\* s.split(/\s+/): the pieces between runs of whitespace.
RECURSIVE SplitSpaces(_)
SplitSpaces(s) ==
    LET ws == {i \in 1..Len(s) : s[i] \in Whitespace}
    IN IF ws = {} THEN <<s>>
       ELSE LET i == CHOOSE h \in ws : \A g \in ws : h <= g
                j == CHOOSE h \in i..Len(s) :
                        /\ \A g \in i..h : s[g] \in Whitespace
                        /\ (h < Len(s) => s[h + 1] \notin Whitespace)
            IN <<SubSeq(s, 1, i - 1)>> \o SplitSpaces(SubSeq(s, j + 1, Len(s)))

\* The value the try block of a probe assigns to its flag from the stdout.
FlagFrom(flag, stdout) ==
    CASE flag = "dockerComposeInstalled" ->
            stdout # <<>> /\ MajorVersion(stdout) # NaN /\ MajorVersion(stdout) >= 2
      [] flag = "dockerIsInUserGroups" ->
            \E k \in 1..Len(SplitSpaces(stdout)) :
                SplitSpaces(stdout)[k] = <<"d", "o", "c", "k", "e", "r">>
      [] OTHER -> stdout # <<>>

\* A probe without its try/catch: a failed command rejects _getSpecs.
Probe_Uncaught(specs, flag, r) ==
    IF r.threw THEN [threw |-> TRUE, specs |-> specs]
    ELSE [threw |-> FALSE, specs |-> [specs EXCEPT ![flag] = FlagFrom(flag, r.stdout)]]

\* One sub-check sharing its try block with the rest: a failure blanks
\* every flag.
Probe_BlanksAll(specs, flag, r) ==
    IF r.threw THEN [threw |-> FALSE, specs |-> [f \in DOMAIN specs |-> FALSE]]
    ELSE [threw |-> FALSE, specs |-> [specs EXCEPT ![flag] = FlagFrom(flag, r.stdout)]]

\* One try/catch block of _getSpecs: the flag is assigned when the command
\* resolved; a rejection is logged and leaves specs as it was.
Probe(specs, flag, r) ==
    IF r.threw THEN [threw |-> FALSE, specs |-> specs]
    ELSE [threw |-> FALSE, specs |-> [specs EXCEPT ![flag] = FlagFrom(flag, r.stdout)]]

\* The flags of a list of probes.
FlagsOf(probes) == {probes[k] : k \in 1..Len(probes)}

\* _getSpecs() of one of the two runtimes is called: every flag is false.
ProbeStart ==
    /\ \E probes \in {DockerProbes, PodmanProbes} :
          /\ gs_specs = [f \in FlagsOf(probes) |-> FALSE]
          /\ gs_out = [f \in FlagsOf(probes) |-> NotRun]
    /\ gs_pc = 1

\* No probe is running.
ProbeIdle ==
    /\ gs_pc = 0
    /\ gs_specs = [f \in {} |-> FALSE]
    /\ gs_out = [f \in {} |-> NotRun]

\* The try/catch blocks of the _getSpecs that was called, in program order.
ProbesOf(specs) ==
    IF DOMAIN specs = FlagsOf(DockerProbes) THEN DockerProbes ELSE PodmanProbes

\* _getSpecs rejected / returned specs.
GetSpecsRejected == 0 - 1
GetSpecsReturned == 0 - 2

\* The next try/catch block of _getSpecs runs; a rejection that escapes
\* it ends the call.
RunProbe ==
    /\ gs_pc \in 1..Len(ProbesOf(gs_specs))
    /\ LET flag == ProbesOf(gs_specs)[gs_pc]
       IN \E r \in ProbeResults(flag) :
             /\ gs_out' = [gs_out EXCEPT ![flag] = r]
             /\ gs_specs' = Probe(gs_specs, flag, r).specs
             /\ gs_pc' = IF Probe(gs_specs, flag, r).threw THEN GetSpecsRejected
                         ELSE gs_pc + 1
    /\ UNCHANGED notProbeVars

\* `return specs`.
GetSpecs_Return ==
    /\ gs_pc = Len(ProbesOf(gs_specs)) + 1
    /\ gs_pc' = GetSpecsReturned
    /\ UNCHANGED <<gs_specs, gs_out, notProbeVars>>

NextProbe == RunProbe \/ GetSpecs_Return

(***************************************************************************)
(* ComposePortMapper: lookups in the list of short-syntax entries          *)
(***************************************************************************)

MaxMapped == 2

M_8080_80 == <<"8", "0", "8", "0", ":", "8", "0">>
M_81_80udp == <<"8", "1", ":", "8", "0", "/", "u", "d", "p">>
M_Rdp == <<"3", "3", "8", "9", ":", "3", "3", "8", "9">>
M_Range == <<"1", ":", "8", "0", "-", "9", "0">>

MappedPool == {M_8080_80, M_81_80udp, M_Rdp, M_Range}

RECURSIVE MappedLists(_)
MappedLists(n) ==
    IF n = 0 THEN {<<>>}
    ELSE MappedLists(n - 1)
         \cup {Append(l, e) : l \in {x \in MappedLists(n - 1) : Len(x) = n - 1},
                               e \in MappedPool}

\* findIndex found nothing / a lookup returned undefined.
NoIndex == 0 - 1

NoMapping == NoEntry("undefined")

\* new ComposePortMapper(compose) is about to be called, and then asked
\* about a guest port and protocol.
MapperStart ==
    /\ mp_ports \in MappedLists(MaxMapped)
    /\ mp_shortPorts = <<>>
    /\ mp_guestPort \in {80, GUEST_RDP_PORT}
    /\ mp_protocol \in {TCP, UDP}
    /\ mp_has = FALSE
    /\ mp_get = NoMapping
    /\ mp_pc = "new"

\* No mapper exists.
MapperIdle ==
    /\ mp_ports = <<>>
    /\ mp_shortPorts = <<>>
    /\ mp_guestPort = 0
    /\ mp_protocol = TCP
    /\ mp_has = FALSE
    /\ mp_get = NoMapping
    /\ mp_pc = "idle"

\* findGuestPortIndex: findIndex over shortPorts (0-based), undefined
\* (NoIndex) when findIndex returned -1.
findGuestPortIndex(shortPorts, guestPort, protocol) ==
    LET hits == {k \in 1..Len(shortPorts) :
                    /\ ~shortPorts[k].container.range
                    /\ shortPorts[k].container.start = guestPort
                    /\ shortPorts[k].protocol = protocol}
    IN IF hits = {} THEN NoIndex
       ELSE (CHOOSE k \in hits : \A j \in hits : k <= j) - 1

\* !mappingIdx: undefined and 0 are both falsy.
Falsy(idx) == idx = NoIndex \/ idx = 0

\* getShortPortMapping(guestPort, protocol)
getShortPortMapping(shortPorts, guestPort, protocol) ==
    LET mappingIdx == findGuestPortIndex(shortPorts, guestPort, protocol)
    IN IF Falsy(mappingIdx) THEN NoMapping ELSE shortPorts[mappingIdx + 1]

\* hasShortPortMapping(guestPort, protocol)
hasShortPortMapping(shortPorts, guestPort, protocol) ==
    ~Falsy(findGuestPortIndex(shortPorts, guestPort, protocol))

\* The constructor: pushPortEntry for every string of the compose ports.
MapperConstruct ==
    /\ mp_pc = "new"
    /\ mp_shortPorts' = [k \in 1..Len(mp_ports) |-> NewComposePortEntry(mp_ports[k])]
    /\ mp_pc' = "built"
    /\ UNCHANGED <<mp_ports, mp_guestPort, mp_protocol, mp_has, mp_get, notMapperVars>>

HasShortPortMapping ==
    /\ mp_pc = "built"
    /\ mp_has' = hasShortPortMapping(mp_shortPorts, mp_guestPort, mp_protocol)
    /\ mp_pc' = "asked"
    /\ UNCHANGED <<mp_ports, mp_shortPorts, mp_guestPort, mp_protocol, mp_get,
                   notMapperVars>>

GetShortPortMapping ==
    /\ mp_pc = "asked"
    /\ mp_get' = getShortPortMapping(mp_shortPorts, mp_guestPort, mp_protocol)
    /\ mp_pc' = "got"
    /\ UNCHANGED <<mp_ports, mp_shortPorts, mp_guestPort, mp_protocol, mp_has,
                   notMapperVars>>

NextMapper == MapperConstruct \/ HasShortPortMapping \/ GetShortPortMapping

(***************************************************************************)
(* The volume list written by createComposeFile (install.ts)               *)
(***************************************************************************)

MaxRuns == 3

\* services.windows.volumes of PODMAN_DEFAULT_COMPOSE.
V_Storage == <<"d", "a", "t", "a", ":", "/", "s", "t", "o", "r", "a", "g", "e">>
V_Shared == <<"$", "{", "H", "O", "M", "E", "}", ":", "/", "s", "h", "a", "r", "e", "d">>
V_Usb == <<"/", "d", "e", "v", "/", "b", "u", "s", "/", "u", "s", "b", ":", "/", "d", "e", "v", "/", "b", "u", "s", "/", "u", "s", "b", ":", "r", "s", "l", "a", "v", "e">>
V_Oem == <<".", "/", "o", "e", "m", ":", "/", "o", "e", "m">>

DefaultVolumes == <<V_Storage, V_Shared, V_Usb, V_Oem>>

N_Storage == <<"/", "s", "t", "o", "r", "a", "g", "e">>
N_Shared == <<"/", "s", "h", "a", "r", "e", "d">>
N_BootIso == <<"/", "b", "o", "o", "t", ".", "i", "s", "o">>

\* conf.customIsoPath: undefined, or the path the user picked.
NoIsoPath == <<>>
IsoPaths == {NoIsoPath, <<"/", "w", ".", "i", "s", "o">>}

\* conf.installFolder.
InstallFolders == {<<"/", "w", "b">>, <<"/", "s", "h", "a", "r", "e", "d", "/", "w", "b">>}

InstallConfigurations ==
    [customIsoPath : IsoPaths, installFolder : InstallFolders, shareHomeFolder : BOOLEAN]

\* volumes.findIndex(vol => vol.includes(needle)): 0-based, -1 when none.
findVolumeIndex(volumes, needle) ==
    LET hits == {i \in 0..(Len(volumes) - 1) : Includes(volumes[i + 1], needle)}
    IN IF hits = {} THEN NoIndex
       ELSE CHOOSE i \in hits : \A j \in hits : i <= j

\* volumes.splice(idx, 1)
Splice1(volumes, idx) ==
    SubSeq(volumes, 1, idx) \o SubSeq(volumes, idx + 2, Len(volumes))

\* "Boot image mapping": push `${customIsoPath}:/boot.iso` when a path is set.
BootImageMapping(volumes, conf) ==
    IF conf.customIsoPath # NoIsoPath
    THEN Append(volumes, conf.customIsoPath \o <<":">> \o N_BootIso)
    ELSE volumes

\* "Storage folder mapping": the first volume that includes '/storage'
\* becomes `${installFolder}:/storage`; one is pushed when there is none.
StorageFolderMapping(volumes, conf) ==
    LET storageFolderIdx == findVolumeIndex(volumes, N_Storage)
        mount == conf.installFolder \o <<":">> \o N_Storage
    IN IF storageFolderIdx # NoIndex
       THEN [volumes EXCEPT ![storageFolderIdx + 1] = mount]
       ELSE Append(volumes, mount)

\* "Home folder mapping": when sharing is not chosen, the first volume
\* that includes '/shared' is spliced out; nothing is done otherwise.
HomeFolderMapping(volumes, conf) ==
    LET sharedFolderIdx == findVolumeIndex(volumes, N_Shared)
    IN IF ~conf.shareHomeFolder /\ sharedFolderIdx # NoIndex
       THEN Splice1(volumes, sharedFolderIdx)
       ELSE volumes

\* The three edits of createComposeFile, in program order, on the array
\* that composeContent shares with the adapter's defaultCompose.
EditVolumes(volumes, conf) ==
    HomeFolderMapping(StorageFolderMapping(BootImageMapping(volumes, conf), conf), conf)

NoConfiguration ==
    [customIsoPath |-> NoIsoPath, installFolder |-> <<>>, shareHomeFolder |-> FALSE]

\* The application has started: the adapter holds the default compose and
\* no installation has run.
VolumeStart ==
    /\ vol_default = DefaultVolumes
    /\ vol_written = <<>>
    /\ vol_conf = NoConfiguration
    /\ vol_runs = 0

VolumeIdle ==
    /\ vol_default = <<>>
    /\ vol_written = <<>>
    /\ vol_conf = NoConfiguration
    /\ vol_runs = 0

\* One execution of createComposeFile by an InstallManager made with conf:
\* `const composeContent = this.container.defaultCompose` is the adapter's
\* own object, so the edits are made in place and writeCompose writes them.
CreateComposeFile_Volumes ==
    /\ vol_runs > 0 \/ vol_default = DefaultVolumes
    /\ vol_default # <<>>
    /\ vol_runs < MaxRuns
    /\ \E conf \in InstallConfigurations :
          /\ vol_conf' = conf
          /\ vol_default' = EditVolumes(vol_default, conf)
          /\ vol_written' = EditVolumes(vol_default, conf)
    /\ vol_runs' = vol_runs + 1
    /\ UNCHANGED notVolumeVars

NextVolumes ==
    CreateComposeFile_Volumes

(***************************************************************************)
(* Specifications                                                          *)
(***************************************************************************)

NextEntry == Construct \/ Reconstruct

InitEntry == EntryStart /\ PortIdle /\ InstallIdle /\ OrchIdle /\ FileIdle /\ ProbeIdle /\ MapperIdle
    /\ VolumeIdle

SpecEntry == InitEntry /\ [][NextEntry]_vars

InitPorts == PortStart /\ EntryIdle /\ InstallIdle /\ OrchIdle /\ FileIdle /\ ProbeIdle /\ MapperIdle
    /\ VolumeIdle

SpecPorts == InitPorts /\ [][NextPorts]_vars

\* An installation: the negotiation has not started, some host ports are
\* held by other processes.
InitInstall ==
    /\ InstallStart
    /\ VolumeIdle
    /\ EntryIdle
    /\ ProbeIdle
    /\ MapperIdle
    /\ OrchIdle
    /\ FileIdle
    /\ compose_ports = <<>>
    /\ findOpenPorts = TRUE
    /\ taken \in TakenSets
    /\ bindDenied \in BOOLEAN
    /\ portConfig = NotRead
    /\ pm_ports = <<>>
    /\ pm_i = 1
    /\ pm_pc = "idle"
    /\ rdpHostPort = GUEST_RDP_PORT
    /\ pm_error = "none"
    /\ pm_calls = <<>>
    /\ pm_out = <<>>

SpecInstall == InitInstall /\ [][NextInstall]_vars

InitOrch == OrchStart /\ EntryIdle /\ PortIdle /\ InstallIdle /\ FileIdle /\ ProbeIdle /\ MapperIdle
    /\ VolumeIdle

SpecOrch == InitOrch /\ [][NextOrch]_vars

\* The status interval is never cleared, so it keeps firing, and each
\* command a handler awaits (inspect, port, isAlive) settles.
SpecOrchFair ==
    /\ SpecOrch
    /\ WF_vars(TickFire)
    /\ WF_vars(TickStatus)
    /\ WF_vars(TickPort)
    /\ WF_vars(TickQmpAlive)

\* The orchestrator is at rest, with the container observed running or
\* not, while the compose file is replaced.
InitFile ==
    /\ FileStart
    /\ VolumeIdle
    /\ EntryIdle
    /\ ProbeIdle
    /\ MapperIdle
    /\ PortIdle
    /\ InstallIdle
    /\ runtime \in Runtimes
    /\ guestUp = FALSE
    /\ containerStatus \in {RUNNING, EXITED}
    /\ tk = [p \in TickPcs |-> 0]
    /\ healthInterval = FALSE
    /\ metricsInterval = FALSE
    /\ rdpInterval = FALSE
    /\ qmpInterval = FALSE
    /\ isOnline = FALSE
    /\ rdpConnected = FALSE
    /\ isUpdatingGuestServer = FALSE
    /\ qmpMgr = NoQmpMgr
    /\ cachedPortMappings = Null
    /\ pending = [k \in PendingKinds |-> 0]
    /\ settled = NothingSettled
    /\ refreshed = FALSE

SpecFile == InitFile /\ [][NextFile]_vars

InitProbe ==
    /\ ProbeStart
    /\ VolumeIdle
    /\ EntryIdle
    /\ PortIdle
    /\ InstallIdle
    /\ OrchIdle
    /\ FileIdle
    /\ MapperIdle

SpecProbe == InitProbe /\ [][NextProbe]_vars

InitMapper ==
    /\ MapperStart
    /\ VolumeIdle
    /\ EntryIdle
    /\ PortIdle
    /\ InstallIdle
    /\ OrchIdle
    /\ FileIdle
    /\ ProbeIdle

SpecMapper == InitMapper /\ [][NextMapper]_vars

InitVolumes ==
    /\ VolumeStart
    /\ EntryIdle
    /\ PortIdle
    /\ InstallIdle
    /\ OrchIdle
    /\ FileIdle
    /\ ProbeIdle
    /\ MapperIdle

SpecVolumes == InitVolumes /\ [][NextVolumes]_vars


\* C4: every accepted entry string parses again, from its own serialization,
\* to the same hostIP, host, container and protocol.
C4_RoundTrip == pe_pc = "reparsed" => pe_second = pe_first

(***************************************************************************)
(* Port negotiation claims                                                 *)
(***************************************************************************)

Succeeded == pm_pc \in {"done", "formatted"}

\* C1: after parseCompose completes successfully, the host ports of any two
\* distinct guest ports of the table are more than PORT_SEARCH_RANGE apart.
C1_PairwiseSpacing ==
    Succeeded =>
        \A i, j \in 1..Len(pm_ports) :
            i # j => getPortDistance(pm_ports[i].hostPort, pm_ports[j].hostPort)
                        > PORT_SEARCH_RANGE

SearchWindow(p) == (p + 1)..(p + PORT_SEARCH_RANGE)

\* C2: when the probe reports the desired host port p taken (findOpenPorts
\* on), the stored host port is a free port of p+1 .. p+PORT_SEARCH_RANGE,
\* and when that window has no free port the call fails with the
\* 'No open port found' error.
C2_ReplacementInWindow ==
    \A k \in 1..Len(pm_calls) :
        LET c == pm_calls[k]
        IN (c.find /\ c.probe = "inuse") =>
              IF \E q \in SearchWindow(c.hostPort) : ~IsTaken(q)
              THEN /\ c.err = "none"
                   /\ c.stored \in SearchWindow(c.hostPort)
                   /\ ~IsTaken(c.stored)
              ELSE c.err = "NoOpenPort"

\* The entries of the emitted list for guest port 3389 and one protocol.
RdpOut(protocol) ==
    {k \in 1..Len(pm_out) :
        /\ NewPortEntry(pm_out[k]).guestPort = GUEST_RDP_PORT
        /\ Split(pm_out[k], "/") = <<Split(pm_out[k], "/")[1], protocol>>}

\* C3: after a successful negotiation composeFormat holds exactly one /tcp
\* and exactly one /udp entry for guest port 3389, and both carry the host
\* port getHostPort(3389).
C3_RdpTcpUdpSameHost ==
    pm_pc = "formatted" =>
        /\ Cardinality(RdpOut(TCP)) = 1
        /\ Cardinality(RdpOut(UDP)) = 1
        /\ \A k \in RdpOut(TCP) \cup RdpOut(UDP) :
              NewPortEntry(pm_out[k]).hostPort = getHostPort(pm_ports, GUEST_RDP_PORT)
        /\ \A k \in 1..Len(pm_out) :
              NewPortEntry(pm_out[k]).guestPort = GUEST_RDP_PORT
                  => k \in RdpOut(TCP) \cup RdpOut(UDP)

\* C3 witness: a negotiation that remapped the taken RDP host port was
\* formatted.
C3_Witness ==
    /\ pm_pc = "formatted"
    /\ \E k \in 1..Len(pm_calls) :
          /\ pm_calls[k].guestPort = GUEST_RDP_PORT
          /\ pm_calls[k].probe = "inuse"
          /\ pm_calls[k].stored # pm_calls[k].hostPort
    /\ Len(pm_out) >= 3

(***************************************************************************)
(* Installation claims                                                     *)
(***************************************************************************)

StateOrder ==
    <<CREATING_COMPOSE_FILE, CREATING_OEM, STARTING_CONTAINER,
      MONITORING_PREINSTALL, INSTALLING_WINDOWS, COMPLETED>>

Rank(state) == CHOOSE r \in 1..Len(StateOrder) : StateOrder[r] = state

Notified(state) == \E i \in 1..Len(in_log) : in_log[i] = state

\* C6: the stateChanged notifications follow the linear order of the
\* states: each notified state has all its predecessors notified before it,
\* none comes after a later one, and the only other one is INSTALL_ERROR.
C6_LinearOrder ==
    \A i \in 1..Len(in_log) :
        \/ in_log[i] = INSTALL_ERROR
        \/ /\ \E r \in 1..Len(StateOrder) : StateOrder[r] = in_log[i]
           /\ \A r \in 1..(Rank(in_log[i]) - 1) :
                 \E j \in 1..(i - 1) : in_log[j] = StateOrder[r]
           /\ \A j \in 1..(i - 1) :
                 in_log[j] # INSTALL_ERROR => Rank(in_log[j]) <= Rank(in_log[i])

\* C6 witness: a run that slept between two preinstall polls, waited for
\* the health endpoint and returned completed.
C6_Witness ==
    /\ in_pc = "returned"
    /\ in_state = COMPLETED
    /\ in_sleeps >= 1
    /\ in_attempts >= 1

\* C7: a stage that throws makes the state INSTALL_ERROR, and once
\* INSTALL_ERROR is notified the run has halted: it is the last
\* notification, COMPLETED was never notified, and nothing of the run
\* (stage, negotiation, notification) changes afterwards.
C7_ErrorHalts ==
    /\ [](Notified(INSTALL_ERROR) =>
            /\ in_log[Len(in_log)] = INSTALL_ERROR
            /\ Cardinality({i \in 1..Len(in_log) : in_log[i] = INSTALL_ERROR}) = 1
            /\ ~Notified(COMPLETED)
            /\ in_state = INSTALL_ERROR
            /\ in_pc = "returned")
    /\ [][/\ in_pc = "thrown" => in_state' = INSTALL_ERROR
          /\ Notified(INSTALL_ERROR) => UNCHANGED <<installVars, portVars>>]_vars

\* C7 witness: a run that failed while monitoring the preinstall phase.
C7_Witness ==
    /\ Notified(INSTALL_ERROR)
    /\ Notified(MONITORING_PREINSTALL)
    /\ in_polls >= 2

\* The run is past the preinstall monitoring without having failed.
PastPreinstall == in_pc \in {"health", "healthy", "returned"}

\* C16: when the first preinstall status request of a run answers 404,
\* monitorContainerPreinstall returns at once: no 500 ms sleep was or is
\* executed, the request stays the only one, and the notification that
\* follows MONITORING_PREINSTALL is INSTALLING_WINDOWS.
C16_First404GoesStraightOn ==
    [][/\ (in_polls = 0 /\ in_last' = Request("preinstall", "status404")) =>
             /\ in_polls' = 1
             /\ in_sleeps' = 0
             /\ in_pc' = "health"
             /\ in_log' = Append(in_log, INSTALLING_WINDOWS)
       /\ PastPreinstall =>
             /\ in_polls' = in_polls
             /\ in_sleeps' = in_sleeps]_vars

\* C16 witness: the first request answered 404 and the run is waiting for
\* the health endpoint, having announced INSTALLING_WINDOWS.
C16_Witness ==
    /\ in_last = Request("preinstall", "status404")
    /\ in_polls = 1
    /\ in_pc = "health"
    /\ in_state = INSTALLING_WINDOWS

\* The failures of a preinstall status request that are not the 404 signal.
PollFailures == {Request("preinstall", did) : did \in {"timeout", "error"}}

\* C18: while the preinstall is monitored, a status request that fails with
\* anything but the 404 signal ends the run in INSTALL_ERROR: the failure is
\* thrown out of the loop, the catch block of install() notifies
\* INSTALL_ERROR, and no request is issued after the failed one.
C18_PollFailureIsFatal ==
    /\ [](in_last \in PollFailures =>
             \/ in_pc = "thrown"
             \/ in_pc = "returned" /\ in_state = INSTALL_ERROR)
    /\ [][(in_last \in PollFailures) =>
             in_polls' = in_polls /\ in_last' = in_last]_vars

\* C18 witness: a run whose second status request failed with a connection
\* error and that ended in INSTALL_ERROR.
C18_Witness ==
    /\ in_last = Request("preinstall", "error")
    /\ in_polls = 2
    /\ in_pc = "returned"
    /\ in_state = INSTALL_ERROR

\* C19: a preinstall status request that times out or fails with a
\* transient network error does not move the run to INSTALL_ERROR; the
\* polling goes on.
C19_TransientPollFailureTolerated ==
    in_last \in PollFailures =>
        /\ in_state # INSTALL_ERROR
        /\ in_pc \in {"sleep", "poll"}

\* C20: while the guest is installing, no outcome of a health poll moves
\* the run to INSTALL_ERROR or ends the phase, except a 200, which ends it
\* with the state COMPLETED.
C20_HealthPhaseEndsOnlyOn200 ==
    /\ [](in_last.of = "health" =>
             /\ in_state # INSTALL_ERROR
             /\ in_pc # "thrown"
             /\ in_state # INSTALLING_WINDOWS => in_state = COMPLETED)
    /\ [][in_pc = "health" =>
             IF in_last' = Request("health", "status200")
             THEN in_state' = COMPLETED /\ in_pc' = "healthy"
             ELSE in_state' = INSTALLING_WINDOWS /\ in_pc' = "health"]_vars

\* C20 witness: a run that saw a timeout and another failed attempt of the
\* health poll, then a 200, and returned completed.
C20_Witness ==
    /\ in_attempts = 2
    /\ in_last = Request("health", "status200")
    /\ in_pc = "returned"
    /\ in_state = COMPLETED

\* The negotiation of the run failed for want of a free port.
PortsExhausted == pm_pc = "failed" /\ pm_error = "NoOpenPort"

\* C21: when the port negotiation of createComposeFile fails with port
\* exhaustion, writeCompose is never called and compose up is never invoked
\* in that run, and every step the run takes from there leads to its end in
\* INSTALL_ERROR: the rejection is thrown out of createComposeFile, then the
\* catch block of install() notifies INSTALL_ERROR and returns.
C21_ExhaustionAbortsBeforeWrite ==
    /\ [](PortsExhausted =>
             /\ ~composeWritten
             /\ ~composeUp
             /\ in_pc \in {"negotiate", "thrown", "returned"}
             /\ in_state \in {CREATING_COMPOSE_FILE, INSTALL_ERROR})
    /\ [][PortsExhausted =>
             /\ in_pc = "negotiate" => in_pc' = "thrown"
             /\ in_pc = "thrown" =>
                   in_pc' = "returned" /\ in_state' = INSTALL_ERROR]_vars

\* C21 witness: a run that ended in INSTALL_ERROR after the negotiation
\* found no open port for one of the default bindings.
C21_Witness ==
    /\ PortsExhausted
    /\ in_pc = "returned"
    /\ in_state = INSTALL_ERROR
    /\ Len(pm_calls) >= 1

\* The step is an iteration of the health loop, which begins with the
\* request for /health.
HealthRequested ==
    /\ in_pc = "health"
    /\ in_last' # in_last \/ in_attempts' # in_attempts \/ in_pc' # in_pc

\* C30: a health request that follows one that did not return 200 is not
\* issued until the sleep started after that one has elapsed: no request is
\* issued while a sleep of the loop is still running.
C30_SleepBetweenHealthRequests ==
    [][HealthRequested => in_timers = 0]_vars

\* createOEMAssets has run in this installation and has thrown.
OemThrew ==
    /\ \E i \in DOMAIN in_log : in_log[i] = CREATING_OEM
    /\ "createOEMAssets" \notin in_done

\* C31: compose up is invoked only after the compose file has been written
\* and the OEM assets have been staged, both without throwing; when the
\* staging throws, compose up is never invoked and the run ends in
\* INSTALL_ERROR.
C31_ComposeUpAfterWriteAndAssets ==
    /\ composeUp => {"writeCompose", "createOEMAssets"} \subseteq in_done
    /\ OemThrew => /\ ~composeUp
                   /\ in_pc \in {"thrown", "returned"}
                   /\ in_pc = "returned" => in_state = INSTALL_ERROR

\* The staging threw and the run has ended.
C31_Witness ==
    OemThrew /\ in_pc = "returned" /\ composeWritten

(***************************************************************************)
(* Adapter and orchestrator claims                                         *)
(***************************************************************************)

FiveStatuses == {CREATED, RUNNING, PAUSED, EXITED, UNKNOWN}

\* C5: for both runtime adapters getStatus() returns one of Created, Running,
\* Paused, Exited, Unknown, whatever status word the inspect command prints
\* and also when the command fails. containerStatus holds the value of the
\* last getStatus() call of the status loop (it is assigned whenever the
\* returned value differs from it).
C5_StatusInClosedEnum == containerStatus \in FiveStatuses

NoTimerActive ==
    ~healthInterval /\ ~metricsInterval /\ ~rdpInterval /\ ~qmpInterval

\* C8: whenever the last observed status is not Running and no status-tick
\* handler is in flight, none of the four dependent timers is active and
\* isOnline and rdpConnected are both false.
C8_OfflineWhenNotRunning ==
    (containerStatus # RUNNING /\ Total(tk) = 0)
        => (NoTimerActive /\ ~isOnline /\ ~rdpConnected)

\* C9: at most one status-tick handler is in flight at any time.
C9_TicksNeverOverlap == Total(tk) <= 1

\* C10: while the observed status is not Running, neither getActiveHostPort
\* nor apiUrl yields a value from the cached port table.
C10_NoStalePortLookup ==
    containerStatus # RUNNING
        => /\ ~getActiveHostPort(cachedPortMappings, GUEST_API_PORT, TCP).found
           /\ ~getActiveHostPort(cachedPortMappings, GUEST_RDP_PORT, TCP).found
           /\ apiUrl(cachedPortMappings) = Undefined

\* C17: a failed request inside the callback of the health, metrics or
\* remote-desktop-status poller is caught inside the callback: the callback
\* does not settle as a rejected promise, and after the failure the flag of
\* the poller (isOnline for health, rdpConnected for the remote-desktop
\* status) holds its offline value.
C17_PollerFailuresContained ==
    settled.failed =>
        /\ ~settled.rejected
        /\ settled.poller = "health" => ~isOnline
        /\ settled.poller = "rdp" => ~rdpConnected

(***************************************************************************)
(* Serialized form of port entries                                         *)
(***************************************************************************)

\* s has the form address:host:container/protocol: a protocol suffix tcp or
\* udp after the only "/", and before it a container token, a host token
\* and a non-empty bind address in front of them.
IsFourPart(s) ==
    LET slash == Split(s, "/")
        toks == Split(slash[1], ":")
    IN /\ Len(slash) = 2
       /\ slash[2] \in {TCP, UDP}
       /\ Len(toks) >= 3
       /\ Len(slash[1]) - Len(AtEnd(toks, 1)) - Len(AtEnd(toks, 2)) - 2 > 0

\* C23: every serialized port entry is fully qualified: the `entry` of a
\* constructed ComposePortEntry and every element of the composeFormat of
\* the negotiator have the form address:host:container/protocol.
C23_SerializedFullyQualified ==
    /\ (pe_pc \in {"parsed", "reparsed"} /\ pe_first.err = "none")
          => IsFourPart(EntryString(pe_first))
    /\ \A k \in 1..Len(pm_out) : IsFourPart(pm_out[k])

\* The entry string has three or more colon-separated tokens and its
\* bind-address token is empty.
EmptyBindAddress(entry) ==
    /\ Len(Split(entry, ":")) >= 3
    /\ entry[1] = ":"

\* C24: constructing an entry from a string of three or more tokens whose
\* bind-address token is empty succeeds, and the hostIP of the entry is the
\* empty string.
C24_EmptyAddressKept ==
    (pe_pc \in {"parsed", "reparsed"} /\ EmptyBindAddress(pe_input))
        => /\ pe_first.err = "none"
           /\ pe_first.hostIP = <<>>

\* The Range values held by an entry.
RangesOf(e) == {v \in {e.host, e.container} : v.range}

\* C25: every Range the system produces has start <= end and both bounds
\* in 1..65535; a token that violates this yields no Range.
C25_RangeWellFormed ==
    (pe_pc \in {"parsed", "reparsed"} /\ pe_first.err = "none")
        => \A v \in RangesOf(pe_first) :
              /\ v.start <= v.end
              /\ v.start \in 1..PORT_MAX
              /\ v.end \in 1..PORT_MAX

\* The positions of the short-syntax entries of the mapper with container
\* port g and protocol p.
Holding(g, p) ==
    {k \in 1..Len(mp_shortPorts) :
        mp_shortPorts[k].container = PortValue(g) /\ mp_shortPorts[k].protocol = p}

\* C26: hasShortPortMapping(g, p) is true and getShortPortMapping(g, p)
\* returns the entry exactly when the mapper holds a short-syntax entry with
\* container port g and protocol p, at whatever position of the list;
\* otherwise they return false and undefined.
C26_LookupFindsEveryPosition ==
    mp_pc = "got" =>
        IF Holding(mp_guestPort, mp_protocol) # {}
        THEN /\ mp_has
             /\ \E k \in Holding(mp_guestPort, mp_protocol) : mp_get = mp_shortPorts[k]
        ELSE /\ ~mp_has
             /\ mp_get = NoMapping

(***************************************************************************)
(* Capability probe claims                                                 *)
(***************************************************************************)

\* The stdouts of `docker compose version` that report a major version of
\* at least 2.
ComposeAtLeast2 == {S_ComposeV2, S_Compose2, S_Compose10}

\* The check behind a flag succeeded: its command resolved with an output
\* and, for the compose plugin of Docker, the output reports a major version
\* of at least 2; for the user groups, the output lists the group docker.
CheckSucceeded(flag) ==
    /\ ~gs_out[flag].threw
    /\ gs_out[flag].stdout # <<>>
    /\ flag = "dockerComposeInstalled" => gs_out[flag].stdout \in ComposeAtLeast2
    /\ flag = "dockerIsInUserGroups" => gs_out[flag].stdout = S_GroupsIn

\* C22: _getSpecs never throws, whatever subset of its commands fails; a
\* flag is true only if its own check succeeded, and the flag of every check
\* that ran is decided by that check alone: a failed check leaves its own
\* flag false and every other flag as its own check made it.
C22_ProbesIndependent ==
    /\ gs_pc # GetSpecsRejected
    /\ \A k \in 1..Len(ProbesOf(gs_specs)) :
          LET flag == ProbesOf(gs_specs)[k]
          IN IF gs_pc = GetSpecsReturned \/ gs_pc > k
             THEN gs_specs[flag] = CheckSucceeded(flag)
             ELSE ~gs_specs[flag]

\* C22 witness: _getSpecs of Docker returned after `docker compose version`
\* and `docker ps` failed, with the two other flags true.
C22_Witness ==
    /\ gs_pc = GetSpecsReturned
    /\ DOMAIN gs_specs = FlagsOf(DockerProbes)
    /\ gs_out["dockerComposeInstalled"].threw
    /\ gs_out["dockerIsRunning"].threw
    /\ gs_specs["dockerInstalled"]
    /\ gs_specs["dockerIsInUserGroups"]
    /\ ~gs_specs["dockerComposeInstalled"]
    /\ ~gs_specs["dockerIsRunning"]

\* A timer of a dependent poller is created in the step.
PollersCreated ==
    \/ ~healthInterval /\ healthInterval'
    \/ ~metricsInterval /\ metricsInterval'
    \/ ~rdpInterval /\ rdpInterval'
    \/ ~qmpInterval /\ qmpInterval'

\* A callback of a dependent poller sends a request in the step.
RequestIssued == Total(pending') > Total(pending)

\* C27: the dependent pollers are created only by a status-tick handler
\* whose port() has just completed; port() is invoked exactly when the
\* observed status changes to Running; and no dependent poller sends a
\* request before port() has completed in the present Running period.
C27_RefreshBeforePollers ==
    [][/\ PollersCreated =>
             /\ tk["port"] > 0 /\ tk'["port"] = tk["port"] - 1
             /\ ~cachedPortMappings'.isNull
       /\ (tk'["port"] > tk["port"]) <=>
             (containerStatus # RUNNING /\ containerStatus' = RUNNING)
       /\ RequestIssued => refreshed]_vars

\* The callbacks of a poller that are in flight, by the suspension points
\* of its callback; the health callback goes on into the version check, the
\* update and the health loop that follows it.
InFlight(poller) ==
    CASE poller = "health" ->
            pending["healthOk"] + pending["healthFail"] + pending["version"]
                + pending["update"] + pending["rehealth"]
      [] poller = "qmp" -> pending["qmp"] + pending["qmpOff"]
      [] OTHER -> pending[poller]

\* C28: each dependent poller has at most one request in flight: a tick that
\* fires while the previous callback of the poller is still pending sends
\* nothing.
C28_OneRequestInFlight ==
    \A poller \in {"health", "metrics", "rdp", "qmp"} : InFlight(poller) <= 1

\* The request a timer tick of a dependent poller sends, by the suspension
\* point the callback then waits at.
TickRequests == {"healthOk", "healthFail", "metrics", "rdp", "qmp", "qmpOff"}

\* C29: no dependent poller (health, metrics, remote-desktop status, QMP
\* keeper) sends a request in a tick at which isOnline is false or
\* isUpdatingGuestServer is true.
C29_NoRequestWhenOfflineOrUpdating ==
    [][\A k \in TickRequests :
          pending'[k] > pending[k] => (isOnline /\ ~isUpdatingGuestServer)]_vars

(***************************************************************************)
(* Compose file claims                                                     *)
(***************************************************************************)

\* C11: at every state the file at composeFilePath holds the complete
\* previous specification or the complete new one; it is never absent,
\* empty or partially written.
C11_ComposeFileAlwaysWhole == fs_compose.state = "complete"

\* The backup directory holds a file with a timestamp name and exactly the
\* content of file.
BackedUp(file) ==
    \E b \in fs_backup : b.name \in 0..clock /\ b.file = file

\* C12: whenever replaceCompose writes to composeFilePath, a timestamped
\* backup holding exactly the previous file exists; the write is never
\* reached without it.
C12_BackupBeforeWrite ==
    /\ [](rc_kind = "replace" /\ rc_pc \in {"write", "writing", "up"}
            => BackedUp(rc_prev) /\ rc_prev.state # "absent")
    /\ [][rc_kind = "replace" /\ fs_compose' # fs_compose /\ fs_compose'.state # "absent"
            => BackedUp(rc_prev) /\ fs_compose'.content = rc_new]_vars

\* C12 witness: a replacement of a running container's specification has
\* backed up the previous file, written the new one and deployed it.
C12_Witness ==
    /\ rc_kind = "replace"
    /\ rc_pc = "done"
    /\ containerStatus = RUNNING
    /\ rc_prev.state = "complete"
    /\ fs_compose = File("complete", rc_new)
    /\ BackedUp(rc_prev)

(***************************************************************************)
(* Malformed entries                                                       *)
(***************************************************************************)

IsNumberOrRange(v) == v.start # NaN /\ v.end # NaN

\* C13: a malformed entry string yields no entry: every entry the
\* constructor returns has numeric ports (or numeric range ends), a bind
\* address that is valid IPv4 or IPv6, and protocol tcp or udp.
C13_MalformedEntryRejected ==
    (pe_pc \in {"parsed", "reparsed"} /\ pe_first.err = "none")
        => /\ IsNumberOrRange(pe_first.host)
           /\ IsNumberOrRange(pe_first.container)
           /\ (isIPv4(pe_first.hostIP) \/ isIPv6(pe_first.hostIP))
           /\ pe_first.protocol \in {TCP, UDP}

(***************************************************************************)
(* Mismatched remote-desktop entries                                       *)
(***************************************************************************)

\* The host ports the list gives to guest port 3389 under protocol.
RdpHostPorts(ports, protocol) ==
    {NewPortEntry(ports[k]).hostPort :
        k \in {j \in 1..Len(ports) :
                  /\ NewPortEntry(ports[j]).guestPort = GUEST_RDP_PORT
                  /\ NewPortEntry(ports[j]).protocol = protocol}}

Mismatched(ports) ==
    \E t \in RdpHostPorts(ports, TCP), u \in RdpHostPorts(ports, UDP) : t # u

\* C14: a port list whose 3389/tcp and 3389/udp entries carry different
\* host ports yields neither a port table from PortManager.parseCompose
\* nor a port configuration from getPortConfigurationFromCompose.
C14_MismatchedRdpRejected ==
    Mismatched(compose_ports)
        => /\ pm_pc \notin {"done", "formatted"}
           /\ portConfig.kind # "config"

(***************************************************************************)
(* Bindings that need no remapping                                         *)
(***************************************************************************)

GuestOf(i) == NewPortEntry(compose_ports[i]).guestPort

DesiredOf(i) == NewPortEntry(compose_ports[i]).hostPort

\* The list entry the k-th setPortMapping call of the loop was made for:
\* the k-th entry whose guest port is not 3389.
EntryOfCall(k) ==
    CHOOSE i \in 1..Len(compose_ports) :
        /\ GuestOf(i) # GUEST_RDP_PORT
        /\ Cardinality({j \in 1..i : GuestOf(j) # GUEST_RDP_PORT}) = k

LoopCalls == Cardinality({j \in 1..Len(compose_ports) : GuestOf(j) # GUEST_RDP_PORT})

\* hostPort is free and more than PORT_SEARCH_RANGE away from the host
\* port of every binding accepted by the calls before the k-th.
FreeAndApart(hostPort, k) ==
    /\ isPortOpen(hostPort) = "open"
    /\ \A j \in 1..(k - 1) :
          getPortDistance(pm_calls[j].stored, hostPort) > PORT_SEARCH_RANGE

RdpDesired == {DesiredOf(i) : i \in {j \in 1..Len(compose_ports) : GuestOf(j) = GUEST_RDP_PORT}}

\* Some port of the search window above hostPort is free.
WindowHasFreePort(hostPort) ==
    \E p \in (hostPort + 1)..(hostPort + PORT_SEARCH_RANGE) : isPortOpen(p) = "open"

\* C15: (a) for [8006:8006, 7148:7148, 3389:3389/tcp, 3389:3389/udp] with
\* 8006 and 7148 free, 3389 taken and a free port within the search window
\* above it, the negotiation succeeds with 8006->8006, 7148->7148 and 3389
\* on one free host port above 3389, which both 3389 entries of the output
\* carry; (b) whenever a binding is set
\* whose desired host port is free and more than PORT_SEARCH_RANGE away
\* from every binding accepted before it, the port stored is the desired
\* one.
C15_FreeBindingsKept ==
    /\ (/\ compose_ports = FourPorts
        /\ findOpenPorts
        /\ isPortOpen(8006) = "open" /\ isPortOpen(7148) = "open"
        /\ isPortOpen(GUEST_RDP_PORT) = "inuse"
        /\ WindowHasFreePort(GUEST_RDP_PORT))
        => /\ pm_pc # "failed"
           /\ pm_pc \in {"done", "formatted"} =>
                 /\ Len(pm_ports) = 3
                 /\ getHostPort(pm_ports, 8006) = 8006
                 /\ getHostPort(pm_ports, 7148) = 7148
                 /\ getHostPort(pm_ports, GUEST_RDP_PORT) > GUEST_RDP_PORT
                 /\ isPortOpen(getHostPort(pm_ports, GUEST_RDP_PORT)) = "open"
           /\ pm_pc = "formatted" =>
                 \E h \in {getHostPort(pm_ports, GUEST_RDP_PORT)} :
                     pm_out = << E_8006, E_7148,
                                 NumberToString(h) \o <<":">>
                                     \o NumberToString(GUEST_RDP_PORT) \o <<"/">> \o TCP,
                                 NumberToString(h) \o <<":">>
                                     \o NumberToString(GUEST_RDP_PORT) \o <<"/">> \o UDP >>
    /\ \A k \in 1..Len(pm_calls) :
          IF k <= LoopCalls
          THEN FreeAndApart(DesiredOf(EntryOfCall(k)), k)
                  => /\ pm_calls[k].err = "none"
                     /\ pm_calls[k].stored = DesiredOf(EntryOfCall(k))
          ELSE \A h \in RdpDesired :
                  (RdpDesired = {h} /\ FreeAndApart(h, k))
                      => /\ pm_calls[k].err = "none"
                         /\ pm_calls[k].stored = h

\* C15 witness: the four-entry list was negotiated with 3389 taken and the
\* result was formatted.
C15_Witness ==
    /\ compose_ports = FourPorts
    /\ findOpenPorts
    /\ isPortOpen(GUEST_RDP_PORT) = "inuse"
    /\ isPortOpen(8006) = "open"
    /\ pm_pc = "formatted"
    /\ Len(pm_calls) = 3
    /\ pm_calls[1].stored = 8006

(***************************************************************************)
(* Compose volume claims                                                   *)
(***************************************************************************)

\* The volumes of the list that mount something at the guest path.
MountsAt(volumes, guestPath) ==
    {i \in DOMAIN volumes : EndsWith(volumes[i], <<":">> \o guestPath)}

\* C32: after every execution of createComposeFile, the first one or a
\* later one, the written volume list has a '/shared' mount exactly when
\* sharing the home folder was chosen, and a single '/boot.iso' mount when
\* a custom image path was chosen and none otherwise.
C32_VolumesFollowChoices ==
    vol_runs > 0 =>
        /\ (MountsAt(vol_written, N_Shared) # {}) <=> vol_conf.shareHomeFolder
        /\ Cardinality(MountsAt(vol_written, N_BootIso))
              = (IF vol_conf.customIsoPath # NoIsoPath THEN 1 ELSE 0)

(***************************************************************************)
(* Hardware-control (QMP) connection claims                                *)
(***************************************************************************)

\* The step ends the handler of a status change from Running to another
\* status: destroyAPIIntervals() ran to its end without awaiting.
LeftRunningHandlerEnds ==
    /\ containerStatus = RUNNING
    /\ containerStatus' # RUNNING
    /\ tk' = Dec(tk, "getStatus")

\* The step ends a handler that was suspended in destroyAPIIntervals() on
\* qmpMgr.isAlive().
DestroyHandlerEnds ==
    tk' = Dec(tk, "qmpAlive")

\* C33: when the handler of a change of the observed status away from
\* Running has completed, the orchestrator holds no QMP manager (a manager
\* that is held has its socket open), whatever the QMP timer handle was.
C33_NoQmpAfterLeavingRunning ==
    [][(LeftRunningHandlerEnds \/ DestroyHandlerEnds) => qmpMgr' = NoQmpMgr]_vars

\* The step ends the callback of a QMP tick that found experimentalFeatures
\* switched off.
QmpOffCallbackEnds == pending'["qmpOff"] < pending["qmpOff"]

\* C38: a QMP tick that finds experimentalFeatures off removes the timer
\* and opens no connection: its callback never leaves the orchestrator with
\* a manager it did not have.
C38_NoConnectionWhenFlagOff ==
    [][/\ (pending'["qmpOff"] > pending["qmpOff"]) => ~qmpInterval'
       /\ QmpOffCallbackEnds => (qmpMgr = NoQmpMgr => qmpMgr' = NoQmpMgr)]_vars

(***************************************************************************)
(* Orchestrator progress claims                                            *)
(***************************************************************************)

\* The three API pollers exist.
PollersExist == healthInterval /\ metricsInterval /\ rdpInterval

\* C34: if from some point on the container runs and the observed status
\* is Running for good, then from some point on the pollers exist, also
\* when port() failed in the handler that first observed Running.
C34_PollersEventuallyCreated ==
    <>[](guestUp /\ containerStatus = RUNNING) => <>[]PollersExist

(***************************************************************************)
(* Negotiation result claims                                               *)
(***************************************************************************)

\* The entries of the input list and of the composeFormat output, as the
\* negotiator's ComposePortEntry reads them.
InputBindings == [k \in 1..Len(compose_ports) |-> NewPortEntry(compose_ports[k])]
OutputBindings == [j \in 1..Len(pm_out) |-> NewPortEntry(pm_out[j])]

\* C35: once parseCompose has accepted the list and composeFormat was read,
\* every input entry's guest port and protocol are those of some output
\* entry (so two inputs that differ only in protocol both survive), and
\* every output entry's guest port is that of some input entry.
C35_BindingsPreserved ==
    pm_pc = "formatted" =>
        /\ \A k \in DOMAIN InputBindings : \E j \in DOMAIN OutputBindings :
               /\ OutputBindings[j].guestPort = InputBindings[k].guestPort
               /\ OutputBindings[j].protocol = InputBindings[k].protocol
        /\ \A j \in DOMAIN OutputBindings : \E k \in DOMAIN InputBindings :
               InputBindings[k].guestPort = OutputBindings[j].guestPort

\* C36: a parseCompose called with findOpenPorts false changes no host
\* port: for every input entry, getHostPort of its guest port is the host
\* port the entry was written with.
C36_RunningPortsKept ==
    (pm_pc \in {"done", "formatted"} /\ ~findOpenPorts) =>
        \A k \in DOMAIN InputBindings :
            getHostPort(pm_ports, InputBindings[k].guestPort) = InputBindings[k].hostPort

\* parseCompose has returned a table or has thrown.
ParseComposeSettled == pm_pc \in {"done", "formatted", "failed"}

\* parseCompose is between two awaits: its next call of setPortMapping is
\* about to be made.
ParseComposeRunnable == pm_pc = "loop"

\* C37: parseCompose always terminates, whatever each bind probe did: a
\* negotiation that has not returned or thrown is never suspended on a
\* probe that does not settle.
C37_ParseComposeTerminates ==
    ParseComposeSettled \/ ParseComposeRunnable

(***************************************************************************)
(* Container action claims                                                 *)
(***************************************************************************)

\* A container action of the orchestrator is in flight.
ActionInFlight ==
    /\ rc_kind \in ContainerActions \cup {"replace"}
    /\ rc_pc \notin {"idle", "done", "failed"}

\* C39: containerActionLoading is true only while a container action is
\* in flight; once the action has settled, by returning or by throwing,
\* the flag is false.
C39_LoadingOnlyInFlight ==
    containerActionLoading => ActionInFlight

(***************************************************************************)
(* Installation notification claims                                        *)
(***************************************************************************)

\* How many stateChanged notifications of the run carried the state.
Notifications(state) == Cardinality({i \in DOMAIN in_log : in_log[i] = state})

\* install() has returned after its try block ran to the end.
InstallSucceeded == in_pc = "returned" /\ in_state = COMPLETED

\* C40: in a successful run each state from CREATING_COMPOSE_FILE to
\* COMPLETED is notified exactly once, COMPLETED in particular, and no
\* notification repeats a state.
C40_EachStateNotifiedOnce ==
    InstallSucceeded =>
        /\ \A state \in {CREATING_COMPOSE_FILE, CREATING_OEM, STARTING_CONTAINER,
                          MONITORING_PREINSTALL, INSTALLING_WINDOWS, COMPLETED} :
               Notifications(state) = 1
        /\ \A i, j \in DOMAIN in_log : i # j => in_log[i] # in_log[j]

====
